---- MODULE Spec2Model ----
(***************************************************************************)
(* Model of the orchestration control loop of tg-benchmark:                *)
(*   Vivi.solve_base_task / solution_search / solve_solution /             *)
(*   solve_subtasks       (src/modules/agents/orchestrator.py)             *)
(*   Thifany.plan         (src/modules/agents/reseacher/__init__.py)       *)
(*   Davi.solve_question_dataset (src/agents/master.py)                    *)
(* The inference client and the test executor are collaborators: every     *)
(* reply they give is an input drawn with \E from a small set.             *)
(*                                                                         *)
(* success_rate values are kept in hundredths (TestRunner.run rounds the   *)
(* ratio to two decimals): 100 is 1.0, -100 is the "untried" value -1.0.   *)
(***************************************************************************)
EXTENDS Integers, Sequences, FiniteSets, TLC

\* ---------------------------------------------------------------- bounds
MaxRetry == 2      \* largest retry budget max_retry explored (0..MaxRetry)
MaxCand  == 2      \* largest number of candidate solutions in a plan
MaxTests == 2      \* largest number of test cases in a test suite
MaxSub   == 2      \* number of subtasks of the largest breakdown
MaxIter  == 1      \* the configured max_iter
MaxText  == 4      \* longest reasoning text of the plan decision, in tokens
MaxCases == 3      \* largest number of test cases given to the executor
MaxSaves == 2      \* save_checkpoint calls in a run
MaxTotal == 201    \* largest number of test cases whose score is computed
MaxQuestions == 2  \* questions in the benchmark dataset
MaxRuns  == 3      \* runs of run_single_benchmark on the same result file
MaxWrites == 3     \* calls of TUIStateWriter._write_state
MaxFlushes == 2    \* flushes of the file buffer during one json.dump
MaxReads == 3      \* reads of run_state.json by the StateManager

\* ------------------------------------------------------ program constants
RateOne   == 100   \* success_rate 1.0 in hundredths
Untried   == -100  \* Solution.success_rate default -1.0 in hundredths
MinSubtasks == 2   \* a breakdown is accepted with at least 2 subtasks

VARIABLES
    cfg,       \* OrchestratorConfig: max_retry, max_iter, judge_level; and
               \* which of the repository's two Solution schemas is loaded
    stack,     \* call stack of Vivi: one frame per solve_base_task / solve_subtasks
    status,    \* "running" | "returned" | "raised"
    exc,       \* name of the exception that left the entry call, or "none"
    result,    \* the Task record the entry call returned (NoTask before)
    davi,      \* locals of Davi.solve_question_dataset
    decide,    \* locals of Thifany._decide_plan_type
    runner,    \* locals of TestRunner.run
    index,     \* VectorBuffer: the tasks added to the similarity index, in order
    ckpt,      \* locals of _atomic_write, the files it touches, what a reader saw
    bench,     \* locals of run_single_benchmark over its runs, and the result file
    tui,       \* run_state.json, TUIStateWriter._write_state and the StateManager
    obs        \* observation of the last step: what was called, with what

vars == <<cfg, stack, status, exc, result, davi, decide, runner, index,
          ckpt, bench, tui, obs>>

\* ------------------------------------------------------------- helpers
Min(a, b) == IF a < b THEN a ELSE b
Max(a, b) == IF a > b THEN a ELSE b

\* TestRunner.run: success_rate = round(passed / total, 2), 0.0 for no tests.
\* In hundredths, rounded half to even as Python rounds an exact tie.
RoundHalfEven(num, den) ==
    LET q == num \div den
        r == num % den
    IN  IF 2 * r < den THEN q
        ELSE IF 2 * r > den THEN q + 1
        ELSE IF q % 2 = 0 THEN q ELSE q + 1

\* the rate cut off after two decimals instead of rounded (a faulty
\* variant)
SuccessRateTruncated(passed, total) ==
    IF total = 0 THEN 0 ELSE (passed * 100) \div total

SuccessRate(passed, total) ==
    IF total = 0 THEN 0 ELSE RoundHalfEven(passed * 100, total)

NoTask == [best_solution |-> [cand |-> 0, ver |-> 0], best_solution_rating |-> 0, code |-> 0,
           template |-> FALSE]

\* Task(test_suite=..., **base_task.model_dump()): the field defaults.
NewTask == [best_solution |-> [cand |-> 0, ver |-> 0],
            best_solution_rating |-> 0, code |-> 0, template |-> FALSE]

\* Solution(**base_solution.model_dump()): candidate c with the defaults of
\* src/schemas/solution.py (best_code "", success_rate -1.0, no history).
NewSolution(c) ==
    [cand |-> c, context |-> "plan", propose_solution |-> 0,
     best_code |-> 0, success_rate |-> Untried,
     solution_history |-> <<>>,
     \* ghost: what the executor measured for this Solution so far
     n_tested |-> 0, max_measured |-> Untried, latest_max |-> 0,
     best_code_measured |-> Untried]

NoPlan == [result_type |-> "none", subtasks |-> 0, solutions |-> 0,
           has_subtasks |-> FALSE, has_solutions |-> FALSE]

NoObs == [op |-> "none"]

\* ------------------------------------------------------------- frames
\* One frame of Vivi's call stack: the locals of solve_base_task (with the
\* inlined solution_search / solve_solution) or of solve_subtasks.
Frame(fn, pc, iteration, plan_arg, n_sub, n_tests) ==
    [fn |-> fn, pc |-> pc, iteration |-> iteration, plan_arg |-> plan_arg,
     task |-> NewTask, n_tests |-> n_tests, plan |-> NoPlan,
     sols |-> <<>>, order |-> <<>>, round |-> 0, idx |-> 0,
     best_solution_rate |-> Untried, best_solution |-> 0,
     retries |-> 0, n_sub |-> n_sub, sub_idx |-> 0, solved |-> <<>>,
     ncode |-> 0, tests_result |-> Untried, calls |-> 0]

BaseFrame(iteration) == Frame("solve_base_task", "create_tests_suite", iteration, "none", 0, 0)

ComposerFrame(iteration, plan_arg, n_sub, n_tests) ==
    Frame("solve_subtasks", "begin", iteration, plan_arg, n_sub, n_tests)

Depth == Len(stack)
Top == stack[Depth]
SetTop(f) == [stack EXCEPT ![Depth] = f]
Running(fn, pc) == status = "running" /\ Depth > 0 /\ Top.fn = fn /\ Top.pc = pc

\* An exception that nothing in Vivi catches: the whole call stack unwinds.
Raise(e, o) ==
    /\ status' = "raised"
    /\ exc' = e
    /\ stack' = <<>>
    /\ obs' = o
    /\ UNCHANGED <<cfg, decide, runner, index, ckpt, bench, tui, result, davi>>

Step(f, o) ==
    /\ stack' = SetTop(f)
    /\ obs' = o
    /\ UNCHANGED <<cfg, decide, runner, index, ckpt, bench, tui, status, exc, result, davi>>

\* ------------------------------------------------------ the Plan Decider
\* DecidePlanType falling back to subtasks (a faulty variant)
DecidePlanTypeDefaultSubtasks(marker, secondary) ==
    IF marker # "none" THEN marker ELSE "subtasks"

\* Thifany._decide_plan_type: the regex marker if there is one, else the
\* secondary extraction reply decides ("subtasks" in its text or not).
DecidePlanType(marker, secondary) ==
    IF marker # "none" THEN marker
    ELSE IF secondary THEN "subtasks" ELSE "solutions"

\* Plan with the solutions branch filled in beside an accepted breakdown
\* (a faulty variant)
PlanBoth(is_final, marker, secondary, nsub, nsol) ==
    IF /\ ~is_final
       /\ DecidePlanType(marker, secondary) = "subtasks"
       /\ nsub >= MinSubtasks
    THEN [result_type |-> "subtasks", subtasks |-> nsub, solutions |-> nsol,
          has_subtasks |-> TRUE, has_solutions |-> TRUE]
    ELSE [result_type |-> "solutions", subtasks |-> 0, solutions |-> nsol,
          has_subtasks |-> FALSE, has_solutions |-> TRUE]

\* Plan without the test of is_final (a faulty variant)
PlanIgnoringFinal(is_final, marker, secondary, nsub, nsol) ==
    IF /\ DecidePlanType(marker, secondary) = "subtasks"
       /\ nsub >= MinSubtasks
    THEN [result_type |-> "subtasks", subtasks |-> nsub, solutions |-> 0,
          has_subtasks |-> TRUE, has_solutions |-> FALSE]
    ELSE [result_type |-> "solutions", subtasks |-> 0, solutions |-> nsol,
          has_subtasks |-> FALSE, has_solutions |-> TRUE]

\* Plan accepting a breakdown of a single subtask (a faulty variant)
PlanAcceptsOne(is_final, marker, secondary, nsub, nsol) ==
    IF /\ ~is_final
       /\ DecidePlanType(marker, secondary) = "subtasks"
       /\ nsub >= 1
    THEN [result_type |-> "subtasks", subtasks |-> nsub, solutions |-> 0,
          has_subtasks |-> TRUE, has_solutions |-> FALSE]
    ELSE [result_type |-> "solutions", subtasks |-> 0, solutions |-> nsol,
          has_subtasks |-> FALSE, has_solutions |-> TRUE]

\* Thifany.plan
Plan(is_final, marker, secondary, nsub, nsol) ==
    IF /\ ~is_final
       /\ DecidePlanType(marker, secondary) = "subtasks"
       /\ nsub >= MinSubtasks
    THEN [result_type |-> "subtasks", subtasks |-> nsub, solutions |-> 0,
          has_subtasks |-> TRUE, has_solutions |-> FALSE]
    ELSE [result_type |-> "solutions", subtasks |-> 0, solutions |-> nsol,
          has_subtasks |-> FALSE, has_solutions |-> TRUE]

\* solve_base_task line 67: the is_final argument handed to the Plan Decider
IsFinalArg(iteration) == iteration <= cfg.max_iter

\* ------------------------------------------------ sorted(..., reverse=True)
\* Stable sort of the candidate ids by descending stored success_rate.
\* InsertDesc putting a candidate before its equals (a faulty variant)
RECURSIVE InsertDescBeforeEquals(_, _, _)
InsertDescBeforeEquals(sorted, id, sols) ==
    IF sorted = <<>> THEN <<id>>
    ELSE IF sols[Head(sorted)].success_rate > sols[id].success_rate
         THEN <<Head(sorted)>> \o InsertDescBeforeEquals(Tail(sorted), id, sols)
         ELSE <<id>> \o sorted

RECURSIVE InsertDesc(_, _, _)
InsertDesc(sorted, id, sols) ==
    IF sorted = <<>> THEN <<id>>
    ELSE IF sols[Head(sorted)].success_rate >= sols[id].success_rate
         THEN <<Head(sorted)>> \o InsertDesc(Tail(sorted), id, sols)
         ELSE <<id>> \o sorted

RECURSIVE SortDesc(_, _)
SortDesc(order, sols) ==
    IF order = <<>> THEN <<>>
    ELSE InsertDesc(SortDesc(SubSeq(order, 1, Len(order) - 1), sols),
                    order[Len(order)], sols)

\* ------------------------------------------------- operations on a Solution
\* UpdateBest with the comparison left out (a faulty variant)
UpdateBestAlways(sol, code, rate) ==
    [sol EXCEPT !.success_rate = rate, !.best_code = code]

\* UpdateBest with a strict comparison (a faulty variant)
UpdateBestStrict(sol, code, rate) ==
    IF rate > sol.success_rate
    THEN [sol EXCEPT !.success_rate = rate, !.best_code = code]
    ELSE sol

\* orchestrator.py 156-159 (and the same statement at 114-116): keep the
\* new attempt when its rate is >= the stored one.
UpdateBest(sol, code, rate) ==
    IF rate >= sol.success_rate
    THEN [sol EXCEPT !.success_rate = rate, !.best_code = code]
    ELSE sol

\* A history entry: role, content (a code for a developer entry) and, as
\* `plan`, the version of propose_solution its text spells out (NoPlanText
\* for a text that holds no plan).
NoPlanText == -1

\* solution.solution_history.append({"role": "developer", "content": code})
AppendDeveloper(sol, code) ==
    [sol EXCEPT !.solution_history =
        Append(@, [role |-> "developer", content |-> code, plan |-> NoPlanText])]

\* solution.solution_history.append({"role": "judge", "content": feedback})
AppendJudge(sol) ==
    [sol EXCEPT !.solution_history =
        Append(@, [role |-> "judge", content |-> 0, plan |-> NoPlanText])]

\* src/agents/judge line 166: the fallback keeps response_text[:500]
ContextLimit == 500

\* the lengths of a critique text: empty, at the limit, beyond it
CritiqueLengths == {0, ContextLimit, ContextLimit + 1}

\* the first n characters of the critique text of length len
CritiquePrefix(len, n) == [kind |-> "critique", len |-> Min(len, n)]

\* src/agents/judge Will._parse_analyze_test_failures: the two fields come
\* from the tags of the critique (tagged), else from the secondary
\* extraction call (extracted), else from the fallback of line 165-168.
ParseAnalyzeTestFailures(len, tagged, extracted) ==
    IF tagged
    THEN [context |-> [kind |-> "tag", len |-> 0],
          propose_solution |-> [kind |-> "tag", len |-> 0]]
    ELSE IF extracted
    THEN [context |-> [kind |-> "extraction", len |-> 0],
          propose_solution |-> [kind |-> "extraction", len |-> 0]]
    ELSE [context |-> IF len > 0 THEN CritiquePrefix(len, ContextLimit)
                      ELSE [kind |-> "Error parsing context", len |-> 0],
          propose_solution |->
              [kind |-> "Unable to extract solution from response", len |-> 0]]

\* analyze_test_failures that revises the plan without logging the critique
\* (a faulty variant)
AnalyzeTestFailuresNoLog(sol) ==
    [sol EXCEPT !.context = "critique",
                !.propose_solution = @ + 1]

\* Will.analyze_test_failures: the critique text is logged (line 103); it is
\* the text the revised context and propose_solution are taken from.
AnalyzeTestFailures(sol) ==
    [sol EXCEPT !.solution_history =
                    Append(@, [role |-> "judge", content |-> 0,
                               plan |-> sol.propose_solution + 1]),
                !.context = "critique",
                !.propose_solution = @ + 1]

\* Ellian._extract_solution_messages: one message per history entry
ExtractSolutionMessages(sol) ==
    [k \in 1..Len(sol.solution_history) |->
        [role |-> IF sol.solution_history[k].role = "developer"
                  THEN "assistant" ELSE "user",
         content |-> sol.solution_history[k].content,
         plan |-> sol.solution_history[k].plan]]

\* Ellian.generate_solution_code line 34-37: the messages of the request
GenerationRequest(sol) ==
    <<[role |-> "system", content |-> 0, plan |-> NoPlanText]>>
        \o ExtractSolutionMessages(sol)

\* the code under test: solution.solution_history[-1]['content']
LastContent(sol) == sol.solution_history[Len(sol.solution_history)].content

\* ghost: the executor measured `rate` for `code`.  before / after are the
\* Solution before and after the program's own best-tracking.
\*   n_tested            number of test executions
\*   max_measured        highest rate measured
\*   latest_max          the latest code measured at max_measured
\*   best_code_measured  the rate that was measured for the code now in
\*                       best_code (Untried when that code was never run)
Measured(before, after, code, rate) ==
    [after EXCEPT
       !.n_tested = @ + 1,
       !.max_measured = Max(@, rate),
       !.latest_max = IF rate >= before.max_measured THEN code ELSE @,
       !.best_code_measured =
           IF after.best_code = code THEN rate
           ELSE IF after.best_code = before.best_code THEN @
           ELSE Untried]

\* Ellian.generate_solution_code / join_subtasks_code: nrej replies are
\* rejected by parse_code before one is accepted; the budget is
\* generation_retry_attempts = max_retry (Vivi.__init__ line 51).
GenerationSucceeds(nrej) == nrej < cfg.max_retry
GenerationCalls(nrej) == IF nrej < cfg.max_retry THEN nrej + 1 ELSE cfg.max_retry

\* Ellian.get_retry_messages: the rejected reply and the issues parse_code
\* found in it.  The k-th rejected reply and its issues are written -k.
GetRetryMessages(k) ==
    <<[role |-> "assistant", content |-> -k, plan |-> NoPlanText],
      [role |-> "user", content |-> -k, plan |-> NoPlanText]>>

\* the loop that also logs the rejected replies (a faulty variant)
RECURSIVE GenerationLoopLoggingRejected(_, _, _, _, _, _)
GenerationLoopLoggingRejected(sol, nrej, code, attempt, messages, sent) ==
    IF attempt > cfg.max_retry
    THEN [success |-> FALSE, calls |-> attempt - 1, sent |-> sent,
          history |-> sol.solution_history]
    ELSE IF attempt > nrej
    THEN [success |-> TRUE, calls |-> attempt,
          sent |-> Append(sent, messages),
          history |-> AppendDeveloper(sol, code).solution_history]
    ELSE GenerationLoopLoggingRejected(AppendDeveloper(sol, -attempt), nrej,
             code, attempt + 1, messages \o GetRetryMessages(attempt),
             Append(sent, messages))

\* Ellian.generate_solution_code line 39-52, from the attempt-th pass of the
\* loop on: the first nrej replies are rejected by parse_code, the next is
\* `code`.  messages is the local message list, sent the message lists the
\* calls made so far were given.  The result tells whether the code was
\* accepted (else DeveloperGenerationError is raised), how many inference
\* calls were made, and the solution_history the Solution is left with.
RECURSIVE GenerationLoop(_, _, _, _, _, _)
GenerationLoop(sol, nrej, code, attempt, messages, sent) ==
    IF attempt > cfg.max_retry
    THEN [success |-> FALSE, calls |-> attempt - 1, sent |-> sent,
          history |-> sol.solution_history]
    ELSE IF attempt > nrej
    THEN [success |-> TRUE, calls |-> attempt,
          sent |-> Append(sent, messages),
          history |-> AppendDeveloper(sol, code).solution_history]
    ELSE GenerationLoop(sol, nrej, code, attempt + 1,
                        messages \o GetRetryMessages(attempt),
                        Append(sent, messages))

\* Ellian.generate_solution_code
GenerateSolutionCode(sol, nrej, code) ==
    GenerationLoop(sol, nrej, code, 1, GenerationRequest(sol), <<>>)

\* ghost: collaborator calls (inference and executor) counted in a frame
Count(calls, n) == IF cfg.count_calls THEN calls + n ELSE calls

\* first step of solve_solution (line 139)
SolveSolutionEntry == IF cfg.judge_level = 2 THEN "judge_solution" ELSE "generate"

\* ----------------------------------------------------- solve_base_task
\* the sizes of the test suites explored: no test case, or MaxTests of them
SuiteSizes == {0, MaxTests}

\* line 61-63: qa.create_tests_suite and the Task built around it
CreateTestsSuite ==
    /\ Running("solve_base_task", "create_tests_suite")
    /\ \E n \in SuiteSizes, ok \in BOOLEAN :
         IF ok
         THEN Step([Top EXCEPT !.pc = "plan", !.n_tests = n, !.task = NewTask],
                   [op |-> "create_tests_suite", n_tests |-> n, raised |-> FALSE])
         ELSE Raise("ValidationError",
                    [op |-> "create_tests_suite", n_tests |-> 0, raised |-> TRUE])

\* The candidate lists explored: up to MaxCand candidates with the judge
\* off; a single candidate with the judge on (judge_level >= 1), where every
\* judge verdict already doubles the histories a candidate can have, and
\* when the collaborator calls are counted.
CandidateCounts ==
    IF cfg.judge_level = 0 /\ ~cfg.count_calls THEN 0..MaxCand
    ELSE 0..Min(MaxCand, 1)

\* line 66-67: researcher.plan(base_task, suite, iteration <= max_iter, ...)
\* The extraction calls of _plan_subtasks / _plan_solutions pass type=...;
\* generate_response of modules/ollama.py (line 69) has no such parameter
\* and raises TypeError; a handler that takes it answers with a plan that
\* parses, or raises the ValidationError of model_validate_json (line 103).
PlanStep ==
    /\ Running("solve_base_task", "plan")
    /\ \E marker \in {"subtasks", "solutions", "none"}, secondary \in BOOLEAN,
          nsub \in 0..MaxSub, nsol \in CandidateCounts,
          reply \in {"parsed", "TypeError", "ValidationError"} :
         LET is_final == IsFinalArg(Top.iteration)
             o == [op |-> "plan", is_final |-> is_final,
                   iteration |-> Top.iteration,
                   decision |-> DecidePlanType(marker, secondary),
                   nsub |-> nsub,
                   reply |-> reply,
                   plan |-> IF reply = "parsed"
                            THEN Plan(is_final, marker, secondary, nsub, nsol)
                            ELSE NoPlan]
         IN  IF reply = "parsed"
             THEN Step([Top EXCEPT !.pc = "branch",
                           !.plan = Plan(is_final, marker, secondary, nsub, nsol)], o)
             ELSE Raise(reply, o)

\* line 70-76: the assertion and the dispatch; solution_search lines 172-179.
\* Line 175 builds Solution(**solution.model_dump()) from a BaseSolution:
\* the Solution of src/modules/schemas/solution.py has no defaults and
\* rejects it (ValidationError), the one of src/schemas/solution.py fills
\* the defaults in.
Branch ==
    /\ Running("solve_base_task", "branch")
    /\ LET plan == Top.plan
           o == [op |-> "branch"]
       IN  IF plan.has_solutions = plan.has_subtasks
           THEN Raise("AssertionError", o)
           ELSE IF plan.result_type = "solutions" /\ plan.has_solutions
           THEN IF plan.solutions = 0
                THEN Raise("IndexError", [op |-> "solution_search"])
                ELSE IF ~cfg.solution_defaults
                THEN Raise("ValidationError", [op |-> "solution_search"])
                ELSE Step([Top EXCEPT
                             !.pc = "round",
                             !.sols = [c \in 1..plan.solutions |-> NewSolution(c)],
                             !.order = [c \in 1..plan.solutions |-> c],
                             !.best_solution_rate = Untried,
                             !.best_solution = 1,
                             !.round = 0, !.calls = 0],
                          [op |-> "solution_search"])
           ELSE /\ stack' = Append(SetTop([Top EXCEPT !.pc = "await_subtasks"]),
                                   ComposerFrame(Top.iteration - 1, "PlanSubtasks",
                                                 plan.subtasks, Top.n_tests))
                /\ obs' = [op |-> "solve_subtasks", iteration |-> Top.iteration - 1,
                           caller_iteration |-> Top.iteration]
                /\ UNCHANGED <<cfg, decide, runner, index, ckpt, bench, tui, status, exc, result, davi>>

\* RoundsLeft letting one more round through (a faulty variant)
RoundsLeftOffByOne(round) == round <= cfg.max_retry

\* solution_search line 182: for _ in range(self.max_retry)
RoundsLeft(round) == round < cfg.max_retry

\* RetriesLeft letting one more retry through (a faulty variant)
RetriesLeftOffByOne(retries) == retries <= cfg.max_retry

\* solve_subtasks line 124: if retries < self.max_retry
RetriesLeft(retries) == retries < cfg.max_retry

\* the orders of the candidates that are descending by success_rate, ties
\* in any order
DescendingOrders(order, sols) ==
    {p \in [DOMAIN order -> DOMAIN sols] :
        /\ \A c \in DOMAIN sols : \E k \in DOMAIN order : p[k] = c
        /\ \A k \in DOMAIN order :
              k > 1 => sols[p[k - 1]].success_rate >= sols[p[k]].success_rate}

\* Round with a sort that leaves the order of equal candidates open (a
\* faulty variant)
RoundUnstableSort ==
    /\ Running("solve_base_task", "round")
    /\ IF RoundsLeft(Top.round)
       THEN \E p \in DescendingOrders(Top.order, Top.sols) :
              Step([Top EXCEPT !.pc = SolveSolutionEntry,
                               !.order = p,
                               !.idx = 1],
                   [op |-> "round"])
       ELSE Step([Top EXCEPT !.pc = "search_end"], [op |-> "round"])

\* solution_search line 182-184: next round, candidates sorted, or the end
Round ==
    /\ Running("solve_base_task", "round")
    /\ IF RoundsLeft(Top.round)
       THEN Step([Top EXCEPT !.pc = SolveSolutionEntry,
                             !.order = SortDesc(Top.order, Top.sols),
                             !.idx = 1],
                 [op |-> "round"])
       ELSE Step([Top EXCEPT !.pc = "search_end"], [op |-> "round"])

Cur == Top.order[Top.idx]
CurSol == Top.sols[Cur]
SetCurSol(sol) == [Top EXCEPT !.sols[Cur] = sol]

\* The reply of the model to a request with a response_format: text the
\* format accepts, text it rejects, or no text at all.
Replies == {"valid", "invalid", "empty"}

\* response_format: none, "json" / dict, or a pydantic model
ResponseFormats == {"none", "json", "model"}

NoCall == [called |-> FALSE]

\* modules/ollama.py generate_response line 100-113 (the handler the agents
\* of the orchestrator import): json.loads and model_validate_json are
\* called outside any try block.
GenerateResponse(reply, response_format) ==
    IF response_format = "none"
    THEN [called |-> TRUE, reply |-> reply, raised |-> FALSE,
          exc |-> "none", response |-> "raw"]
    ELSE IF reply = "valid"
    THEN [called |-> TRUE, reply |-> reply, raised |-> FALSE,
          exc |-> "none", response |-> "parsed"]
    ELSE [called |-> TRUE, reply |-> reply, raised |-> TRUE,
          exc |-> IF response_format = "json" THEN "JSONDecodeError"
                  ELSE "ValidationError",
          response |-> "none"]

\* modules/llm.py _parse_response line 182-197: an empty reply is returned
\* as "", a reply the format rejects is returned as it came.
ParseResponse(reply, response_format) ==
    IF reply = "empty"
    THEN [called |-> TRUE, reply |-> reply, raised |-> FALSE,
          exc |-> "none", response |-> "raw"]
    ELSE IF response_format = "none"
    THEN [called |-> TRUE, reply |-> reply, raised |-> FALSE,
          exc |-> "none", response |-> "raw"]
    ELSE IF reply = "valid"
    THEN [called |-> TRUE, reply |-> reply, raised |-> FALSE,
          exc |-> "none", response |-> "parsed"]
    ELSE [called |-> TRUE, reply |-> reply, raised |-> FALSE,
          exc |-> "none", response |-> "raw"]

\* solve_solution line 139-140: judge.judge_solution (judge_level = 2).
\* When the verdict is not found in the critique a second request asks for
\* it with response_format = Judgment.
JudgeSolution ==
    /\ Running("solve_base_task", "judge_solution")
    /\ \E is_correct \in BOOLEAN, parsed \in BOOLEAN, reply \in Replies :
         LET extraction == IF parsed THEN NoCall
                           ELSE GenerateResponse(reply, "model")
             ok == ~parsed /\ ~extraction.raised
             o == [op |-> "judge_solution", parsed |-> parsed,
                   raised |-> ~(parsed \/ ok),
                   is_correct |-> is_correct /\ (parsed \/ ok),
                   extraction |-> extraction,
                   other |-> IF parsed THEN NoCall
                             ELSE ParseResponse(reply, "model")]
             sol == IF is_correct THEN CurSol ELSE AppendJudge(CurSol)
         IN  IF parsed \/ ok
             THEN Step([SetCurSol(sol) EXCEPT
                           !.pc = "generate",
                           !.calls = Count(@, (IF parsed THEN 1 ELSE 2))], o)
             ELSE Raise(extraction.exc, o)

\* solve_solution line 143 and line 149: dev.generate_solution_code
Generate ==
    /\ status = "running" /\ Depth > 0 /\ Top.fn = "solve_base_task"
    /\ Top.pc \in {"generate", "regenerate"}
    /\ \E nrej \in 0..cfg.max_retry :
         LET code == Top.ncode + 1
             loop == GenerateSolutionCode(CurSol, nrej, code)
             o == [op |-> "generate_solution_code",
                   request |-> GenerationRequest(CurSol),
                   propose_solution |-> CurSol.propose_solution,
                   history |-> CurSol.solution_history,
                   loop |-> loop]
         IN  IF loop.success
             THEN Step([SetCurSol([CurSol EXCEPT
                                      !.solution_history = loop.history]) EXCEPT
                           !.pc = IF Top.pc = "generate" /\ cfg.judge_level >= 1
                                  THEN "judge_code" ELSE "run_tests",
                           !.ncode = code,
                           !.calls = Count(@, loop.calls)], o)
             ELSE Raise("DeveloperGenerationError", o)

\* solve_solution line 146-149: judge.judge_code (judge_level >= 1)
JudgeCode ==
    /\ Running("solve_base_task", "judge_code")
    /\ \E is_correct \in BOOLEAN, ok \in BOOLEAN :
         LET o == [op |-> "judge_code", raised |-> ~ok,
                   is_correct |-> is_correct /\ ok]
         IN  IF ~ok THEN Raise("AssertionError", o)
             ELSE IF is_correct
             THEN Step([Top EXCEPT !.pc = "run_tests", !.calls = Count(@, 1)], o)
             ELSE Step([SetCurSol(AppendJudge(CurSol)) EXCEPT
                           !.pc = "regenerate", !.calls = Count(@, 1)], o)

\* Carlos.run_tests: nfix harness repairs (at most retry_attempts =
\* max_retry, Vivi.__init__ line 55) and one executor run
RunTestsCalls(nfix) == nfix + 1

\* solve_solution line 151-163: run the tests, best-tracking, return on 1.0
RunTests ==
    /\ Running("solve_base_task", "run_tests")
    /\ \E nfix \in 0..cfg.max_retry, passed \in 0..Top.n_tests :
         LET code == LastContent(CurSol)
             rate == SuccessRate(passed, Top.n_tests)
             sol  == Measured(CurSol, UpdateBest(CurSol, code, rate), code, rate)
             o    == [op |-> "run_tests", code |-> code, rate |-> rate,
                      stored |-> CurSol.success_rate,
                      stored_code |-> CurSol.best_code]
         IN  Step([SetCurSol(sol) EXCEPT
                      !.pc = IF rate = RateOne THEN "after_solve" ELSE "critique",
                      !.tests_result = rate,
                      !.calls = Count(@, RunTestsCalls(nfix))], o)

\* solve_solution line 166-169: judge.analyze_test_failures
Critique ==
    /\ Running("solve_base_task", "critique")
    /\ \E parsed \in BOOLEAN, ok \in BOOLEAN :
         LET o == [op |-> "analyze_test_failures", rate |-> Top.tests_result,
                   retries_left |-> cfg.max_retry - (Top.round + 1),
                   parsed |-> parsed, extracted |-> ~parsed /\ ok]
         IN  IF parsed \/ ok
             THEN Step([SetCurSol(AnalyzeTestFailures(CurSol)) EXCEPT
                           !.pc = "after_solve",
                           !.calls = Count(@, (IF parsed THEN 1 ELSE 2))], o)
             \* modules/agents/judge raises here; `other` is what the
             \* judge of src/agents/judge returns for a critique text of
             \* length len on the same replies
             ELSE \E len \in CritiqueLengths :
                    Raise("ValidationError",
                          o @@ [text_len |-> len,
                                other |-> ParseAnalyzeTestFailures(len, parsed, ok)])

\* UpdateGlobalBest taking a tie as well (a faulty variant)
UpdateGlobalBestOnTie(f, id) ==
    IF f.sols[id].success_rate >= f.best_solution_rate
    THEN [f EXCEPT !.best_solution_rate = f.sols[id].success_rate,
                   !.best_solution = id]
    ELSE f

\* solution_search line 189-191: the global best changes on a strictly
\* better candidate
UpdateGlobalBest(f, id) ==
    IF f.sols[id].success_rate > f.best_solution_rate
    THEN [f EXCEPT !.best_solution_rate = f.sols[id].success_rate,
                   !.best_solution = id]
    ELSE f

\* AfterSolve without the break of line 194-195 (a faulty variant)
AfterSolveNoBreak ==
    /\ Running("solve_base_task", "after_solve")
    /\ LET f == [UpdateGlobalBest(Top, Cur) EXCEPT !.tests_result = Untried]
           o == [op |-> "after_solve"]
       IN  IF Top.idx < Len(Top.order)
           THEN Step([f EXCEPT !.pc = SolveSolutionEntry, !.idx = @ + 1], o)
           ELSE IF f.best_solution_rate = RateOne
           THEN Step([f EXCEPT !.pc = "search_end"], o)
           ELSE Step([f EXCEPT !.pc = "round", !.round = @ + 1], o)

\* solution_search line 189-197: after solve_solution returned
AfterSolve ==
    /\ Running("solve_base_task", "after_solve")
    /\ LET f == [UpdateGlobalBest(Top, Cur) EXCEPT !.tests_result = Untried]
           o == [op |-> "after_solve"]
       IN  IF CurSol.success_rate = RateOne
           THEN \* break (194-195), then the outer test (196-197)
                IF f.best_solution_rate = RateOne
                THEN Step([f EXCEPT !.pc = "search_end"], o)
                ELSE Step([f EXCEPT !.pc = "round", !.round = @ + 1], o)
           ELSE IF Top.idx < Len(Top.order)
           THEN Step([f EXCEPT !.pc = SolveSolutionEntry, !.idx = @ + 1], o)
           ELSE IF f.best_solution_rate = RateOne
           THEN Step([f EXCEPT !.pc = "search_end"], o)
           ELSE Step([f EXCEPT !.pc = "round", !.round = @ + 1], o)

\* solution_search line 199-203: the task takes the global best
SearchEnd ==
    /\ Running("solve_base_task", "search_end")
    /\ LET best == Top.sols[Top.best_solution]
       IN  Step([Top EXCEPT
                    !.pc = "save_history",
                    !.task.best_solution = [cand |-> best.cand,
                                            ver |-> best.propose_solution],
                    !.task.best_solution_rating = best.success_rate,
                    !.task.code = best.best_code],
                [op |-> "search_end", old_rating |-> Top.task.best_solution_rating])

\* solved_tasks.append(solved_subtask): the composer only hands the solved
\* subtasks on to the join prompt; the model keeps which subtask it was.
Solved(caller, task) == caller.sub_idx

\* the callee's Task reaches the caller's frame
Deliver(caller, task) ==
    IF caller.fn = "solve_subtasks"
    THEN \* solve_subtasks line 90-91
         [caller EXCEPT !.solved = Append(@, Solved(caller, task)), !.sub_idx = @ + 1]
    ELSE \* solve_base_task line 73-76
         [caller EXCEPT !.task = task, !.pc = "save_history"]

Return(task, o) ==
    IF Depth = 1
    THEN /\ stack' = <<>>
         /\ status' = "returned"
         /\ result' = task
         /\ obs' = o
         /\ UNCHANGED <<cfg, decide, runner, ckpt, bench, tui, exc, davi>>
    ELSE /\ stack' = [SubSeq(stack, 1, Depth - 1) EXCEPT
                         ![Depth - 1] = Deliver(stack[Depth - 1], task)]
         /\ obs' = o
         /\ UNCHANGED <<cfg, decide, runner, ckpt, bench, tui, status, exc, result, davi>>

\* buffer.py line 8: buffer_limit = 5000
BufferLimit == 5000

\* VectorBuffer.create line 42-52: the task is added under the next id;
\* beyond buffer_limit the oldest entry is dropped (_evict_if_needed)
VectorBufferCreate(buffer, task) ==
    LET added == Append(buffer, task)
    IN  IF Len(added) > BufferLimit THEN Tail(added) ELSE added

\* the task of the solve call on top of the stack: the root task (sub 0)
\* or the sub-th subtask of the composer that called
TopTask ==
    [depth |-> Depth,
     sub |-> IF Depth = 1 THEN 0 ELSE stack[Depth - 1].sub_idx]

\* SaveHistory returning the task without adding it to the index (a faulty
\* variant)
SaveHistoryTemplateOnly ==
    /\ Running("solve_base_task", "save_history")
    /\ UNCHANGED index
    /\ Return([Top.task EXCEPT !.template = TRUE],
              [op |-> "save_history", depth |-> Depth])

\* solve_base_task line 78-81: researcher.save_history (the template is
\* generated, the task is added to the index), then return
SaveHistory ==
    /\ Running("solve_base_task", "save_history")
    /\ index' = VectorBufferCreate(index, TopTask)
    /\ Return([Top.task EXCEPT !.template = TRUE],
              [op |-> "save_history", depth |-> Depth])

\* ------------------------------------------------------- solve_subtasks
\* solve_subtasks line 99-105: the merged program seeds a Solution
SeedSolution(code) ==
    [cand |-> 0, context |-> "definition", propose_solution |-> 0,
     best_code |-> code, success_rate |-> 0,
     solution_history |-> <<[role |-> "developer", content |-> code,
                             plan |-> NoPlanText]>>,
     n_tested |-> 0, max_measured |-> Untried, latest_max |-> 0,
     best_code_measured |-> Untried]

\* line 84-88.  The parameter is read as a PlanResponse
\* (plan_subtask.subtasks.skeleton); solve_base_task line 76 passes
\* solve_task_plan.subtasks, a PlanSubtasks whose .subtasks is a list.
SolveSubtasksBegin ==
    /\ Running("solve_subtasks", "begin")
    /\ IF Top.plan_arg = "PlanSubtasks"
       THEN Raise("AttributeError", [op |-> "solve_subtasks_begin"])
       ELSE Step([Top EXCEPT !.pc = "subtasks", !.sub_idx = 1],
                 [op |-> "solve_subtasks_begin"])

\* CallSubtask leaving the last subtask out (a faulty variant)
CallSubtaskSkipLast ==
    /\ Running("solve_subtasks", "subtasks")
    /\ IF Top.sub_idx < Top.n_sub
       THEN /\ stack' = Append(stack, BaseFrame(Top.iteration))
            /\ obs' = [op |-> "solve_base_task", iteration |-> Top.iteration,
                       sub |-> Top.sub_idx]
            /\ UNCHANGED <<cfg, decide, runner, index, ckpt, bench, tui, status, exc, result, davi>>
       ELSE Step([Top EXCEPT !.pc = "join"], [op |-> "subtasks_done"])

\* line 89-91: solve_base_task(subtask, iteration) for the next subtask
CallSubtask ==
    /\ Running("solve_subtasks", "subtasks")
    /\ IF Top.sub_idx <= Top.n_sub
       THEN /\ stack' = Append(stack, BaseFrame(Top.iteration))
            /\ obs' = [op |-> "solve_base_task", iteration |-> Top.iteration,
                       sub |-> Top.sub_idx]
            /\ UNCHANGED <<cfg, decide, runner, index, ckpt, bench, tui, status, exc, result, davi>>
       ELSE Step([Top EXCEPT !.pc = "join"], [op |-> "subtasks_done"])

\* line 94-107: dev.join_subtasks_code and the Solution seeded from it
Join ==
    /\ Running("solve_subtasks", "join")
    /\ \E nrej \in 0..cfg.max_retry :
         LET o == [op |-> "join_subtasks_code",
                   raised |-> ~GenerationSucceeds(nrej)]
             code == Top.ncode + 1
         IN  IF GenerationSucceeds(nrej)
             THEN Step([Top EXCEPT !.pc = "c_run_tests",
                                   !.task.code = code,
                                   !.ncode = code,
                                   !.sols = <<SeedSolution(code)>>,
                                   !.order = <<1>>, !.idx = 1,
                                   !.retries = 0, !.calls = 0], o)
             ELSE Raise("DeveloperGenerationError", o)

\* line 110-119: test the latest program, best-tracking, stop on 1.0
ComposerRunTests ==
    /\ Running("solve_subtasks", "c_run_tests")
    /\ \E nfix \in 0..cfg.max_retry, passed \in 0..Top.n_tests :
         LET code == LastContent(CurSol)
             rate == SuccessRate(passed, Top.n_tests)
             sol  == Measured(CurSol, UpdateBest(CurSol, code, rate), code, rate)
             o    == [op |-> "run_tests", code |-> code, rate |-> rate,
                      stored |-> CurSol.success_rate,
                      stored_code |-> CurSol.best_code]
         IN  Step([SetCurSol(sol) EXCEPT
                      !.pc = IF rate = RateOne THEN "c_end" ELSE "c_critique",
                      !.tests_result = rate,
                      !.calls = Count(@, RunTestsCalls(nfix))], o)

\* line 121-129: the critique, then the retry test
ComposerCritique ==
    /\ Running("solve_subtasks", "c_critique")
    /\ \E parsed \in BOOLEAN, ok \in BOOLEAN :
         LET o == [op |-> "analyze_test_failures", rate |-> Top.tests_result,
                   retries_left |-> cfg.max_retry - Top.retries,
                   parsed |-> parsed, extracted |-> ~parsed /\ ok]
             sol == [AnalyzeTestFailures(CurSol) EXCEPT !.context = "definition"]
         IN  IF parsed \/ ok
             THEN Step([SetCurSol(sol) EXCEPT
                           !.pc = IF RetriesLeft(Top.retries)
                                  THEN "c_generate" ELSE "c_end",
                           !.calls = Count(@, (IF parsed THEN 1 ELSE 2))], o)
             \* modules/agents/judge raises here; `other` is what the
             \* judge of src/agents/judge returns for a critique text of
             \* length len on the same replies
             ELSE \E len \in CritiqueLengths :
                    Raise("ValidationError",
                          o @@ [text_len |-> len,
                                other |-> ParseAnalyzeTestFailures(len, parsed, ok)])

\* line 124-127: dev.generate_solution_code, retries += 1
ComposerGenerate ==
    /\ Running("solve_subtasks", "c_generate")
    /\ \E nrej \in 0..cfg.max_retry :
         LET code == Top.ncode + 1
             loop == GenerateSolutionCode(CurSol, nrej, code)
             o == [op |-> "generate_solution_code",
                   request |-> GenerationRequest(CurSol),
                   propose_solution |-> CurSol.propose_solution,
                   history |-> CurSol.solution_history,
                   loop |-> loop]
         IN  IF loop.success
             THEN Step([SetCurSol([CurSol EXCEPT
                                      !.solution_history = loop.history]) EXCEPT
                           !.pc = "c_run_tests",
                           !.ncode = code,
                           !.retries = @ + 1,
                           !.calls = Count(@, loop.calls)], o)
             ELSE Raise("DeveloperGenerationError", o)

\* ComposerEnd handing on the last program instead of the best one (a
\* faulty variant)
ComposerEndLastProgram ==
    /\ Running("solve_subtasks", "c_end")
    /\ Step([Top EXCEPT
                !.pc = "c_return",
                !.task.best_solution = [cand |-> 0, ver |-> CurSol.propose_solution],
                !.task.best_solution_rating = CurSol.success_rate,
                !.task.code = LastContent(CurSol)],
            [op |-> "composer_end", old_rating |-> Top.task.best_solution_rating])

\* line 131-135: the task takes the Solution's best, and is returned
ComposerEnd ==
    /\ Running("solve_subtasks", "c_end")
    /\ Step([Top EXCEPT
                !.pc = "c_return",
                !.task.best_solution = [cand |-> 0, ver |-> CurSol.propose_solution],
                !.task.best_solution_rating = CurSol.success_rate,
                !.task.code = CurSol.best_code],
            [op |-> "composer_end", old_rating |-> Top.task.best_solution_rating])

ComposerReturn ==
    /\ Running("solve_subtasks", "c_return")
    /\ UNCHANGED index
    /\ Return(Top.task, [op |-> "solve_subtasks_return", depth |-> Depth,
                         n_tested |-> CurSol.n_tested,
                         max_measured |-> CurSol.max_measured,
                         latest_max |-> CurSol.latest_max])

\* ------------------------------------------ Davi.solve_question_dataset
\* master.py line 34-38: the locals before the try block
NewDavi(n_tests) ==
    [pc |-> "create_question_solution", n_tests |-> n_tests,
     best_code |-> 0, best_solution |-> 0, best_score |-> Untried,
     solution |-> 0, attempts |-> 0, code |-> 0,
     n_tested |-> 0, max_measured |-> Untried, latest_max |-> 0,
     best_code_measured |-> Untried]

DaviAt(pc) == status = "running" /\ davi.pc = pc

DaviStep(d, o) ==
    /\ davi' = d
    /\ obs' = o
    /\ UNCHANGED <<cfg, decide, runner, index, ckpt, bench, tui, stack, status, exc, result>>

\* solve_question_dataset without the return in finally: an exception of a
\* collaborator leaves the call (a faulty variant)
DaviReturnPropagating(d, o) ==
    /\ davi' = [d EXCEPT !.pc = IF o.raised THEN "raised" ELSE "returned"]
    /\ status' = IF o.raised THEN "raised" ELSE "returned"
    /\ exc' = IF o.raised THEN "Exception" ELSE exc
    /\ obs' = o
    /\ UNCHANGED <<cfg, decide, runner, index, ckpt, bench, tui, stack, result>>

\* line 81-82: finally: return best_code, outputs -- on every way out of
\* the try block, an exception included
DaviReturn(d, o) ==
    /\ davi' = [d EXCEPT !.pc = "returned"]
    /\ status' = "returned"
    /\ obs' = o
    /\ UNCHANGED <<cfg, decide, runner, index, ckpt, bench, tui, stack, exc, result>>

\* line 40-46: the question template and the researcher's first solution
DaviCreateSolution ==
    /\ DaviAt("create_question_solution")
    /\ \E ok \in BOOLEAN :
         LET o == [op |-> "create_question_solution", raised |-> ~ok]
         IN  IF ok THEN DaviStep([davi EXCEPT !.pc = "generate"], o)
             ELSE DaviReturn(davi, o)

\* line 50: dev.generate_code_from_master
DaviGenerate ==
    /\ DaviAt("generate")
    /\ \E nrej \in 0..cfg.max_retry :
         LET o == [op |-> "generate_code_from_master",
                   raised |-> ~GenerationSucceeds(nrej)]
         IN  IF GenerationSucceeds(nrej)
             THEN DaviStep([davi EXCEPT !.pc = "run", !.code = @ + 1], o)
             ELSE DaviReturn(davi, o)

\* line 65-68: keep the attempt whose rate is >= the best score
DaviUpdateBest(d, code, rate) ==
    IF rate >= d.best_score
    THEN [d EXCEPT !.best_code = code, !.best_solution = d.solution,
                   !.best_score = rate]
    ELSE d

\* line 54-76: run the tests, best-tracking, the two ways out of the loop
DaviRunTests ==
    /\ DaviAt("run")
    /\ \E passed \in 0..davi.n_tests, ok \in BOOLEAN :
         LET rate == SuccessRate(passed, davi.n_tests)
             d1 == Measured(davi, DaviUpdateBest(davi, davi.code, rate),
                            davi.code, rate)
             d2 == [d1 EXCEPT !.attempts = @ + 1]
             o == [op |-> "davi_run", code |-> davi.code, rate |-> rate,
                   stored |-> davi.best_score, stored_code |-> davi.best_code,
                   raised |-> ~ok]
         IN  IF ~ok THEN DaviReturn(davi, o)
             ELSE IF rate = RateOne THEN DaviReturn(d1, o)
             ELSE IF d2.attempts >= cfg.max_retry THEN DaviReturn(d2, o)
             ELSE DaviStep([d2 EXCEPT !.pc = "judge"], o)

\* line 79-80: judge.evaluate_and_suggest gives the next solution
DaviJudge ==
    /\ DaviAt("judge")
    /\ \E ok \in BOOLEAN :
         LET o == [op |-> "evaluate_and_suggest", raised |-> ~ok,
                   retries_left |-> cfg.max_retry - davi.attempts]
         IN  IF ok
             THEN DaviStep([davi EXCEPT !.pc = "generate", !.solution = @ + 1], o)
             ELSE DaviReturn(davi, o)

\* ------------------------------------------------------------------ Init
JudgeLevels == 0..2

\* solution_defaults: the Solution schema with defaults is the one loaded.
\* count_calls is a ghost switch: whether frames count collaborator calls.
Configs(counting) ==
    [max_retry : 0..MaxRetry, max_iter : {MaxIter}, judge_level : JudgeLevels,
     solution_defaults : BOOLEAN, count_calls : {counting}]

NoDavi == [pc |-> "idle"]

\* The iteration argument of the entry call: no depth left, exactly
\* max_iter, and one more than max_iter.
Iterations == {0, MaxIter, MaxIter + 1}

\* The entry call: solve_base_task(base_task, iteration) or
\* solve_subtasks(task, plan, iteration) with a subtasks PlanResponse.
\* or Davi.solve_question_dataset(question_dataset).
Entry ==
    \/ /\ davi = NoDavi
       /\ \E iteration \in Iterations :
            \/ stack = <<BaseFrame(iteration)>>
            \/ stack = <<ComposerFrame(iteration, "PlanResponse", MaxSub, MaxTests)>>
    \/ /\ stack = <<>>
       /\ \E n_tests \in SuiteSizes : davi = NewDavi(n_tests)

NoDecide == [pc |-> "idle"]
NoRunner == [pc |-> "idle"]
NoCheckpoint == [pc |-> "idle"]
NoBenchmark == [pc |-> "idle"]
NoTui == [pc |-> "idle"]

InitWith(counting) ==
    /\ cfg \in Configs(counting)
    /\ Entry
    /\ decide = NoDecide
    /\ runner = NoRunner
    /\ index = <<>>
    /\ bench = NoBenchmark
    /\ tui = NoTui
    /\ ckpt = NoCheckpoint
    /\ status = "running"
    /\ exc = "none"
    /\ result = NoTask
    /\ obs = NoObs

Init == InitWith(FALSE)

Next ==
    \/ CreateTestsSuite
    \/ PlanStep
    \/ Branch
    \/ Round
    \/ JudgeSolution
    \/ Generate
    \/ JudgeCode
    \/ RunTests
    \/ Critique
    \/ AfterSolve
    \/ SearchEnd
    \/ SaveHistory
    \/ SolveSubtasksBegin
    \/ CallSubtask
    \/ Join
    \/ ComposerRunTests
    \/ ComposerCritique
    \/ ComposerGenerate
    \/ ComposerEnd
    \/ ComposerReturn
    \/ DaviCreateSolution
    \/ DaviGenerate
    \/ DaviRunTests
    \/ DaviJudge

Spec == Init /\ [][Next]_vars

\* the same program with the collaborator calls counted
InitCalls == InitWith(TRUE)
SpecCalls == InitCalls /\ [][Next]_vars

\* ------------------------------------------- Thifany._decide_plan_type
\* A reasoning text is a sequence of tokens: the word "decision" (with or
\* without "final" before it), the words "subtasks" and "solutions", any
\* other word, and a token that is no letter (a digit, a full stop).
\* Colons, blanks and asterisks between tokens are what [:\s\*]* skips.
Tokens == {"decision", "subtasks", "solutions", "word", "digit"}
Letters == Tokens \ {"digit"}
Texts == UNION {[1..n -> Tokens] : n \in 0..MaxText}

\* re.findall(r'(?:final\s+decision|decision)[:\s\*]*([a-z]+)', text): the
\* groups of the matches, found from left to right without overlap
RECURSIVE FindAll(_)
FindAll(text) ==
    IF Len(text) = 0 THEN <<>>
    ELSE IF text[1] = "decision" /\ Len(text) >= 2 /\ text[2] \in Letters
    THEN <<text[2]>> \o FindAll(SubSeq(text, 3, Len(text)))
    ELSE FindAll(Tail(text))

\* Thifany._extract_final_decision_regex: the last match decides
ExtractFinalDecisionRegex(text) ==
    LET matches == FindAll(text)
    IN  IF matches = <<>> THEN "none"
        ELSE LET decision == matches[Len(matches)]
             IN  IF decision = "subtasks" THEN "subtasks"
                 ELSE IF decision = "solutions" THEN "solutions"
                 ELSE "none"

DecideStep(d) ==
    /\ decide' = d
    /\ UNCHANGED <<cfg, stack, status, exc, result, davi, runner, index, ckpt, bench, tui, obs>>

\* line 117-119: the reasoning call
DecideReasoning ==
    /\ status = "running" /\ decide.pc = "reasoning"
    /\ \E text \in Texts :
         DecideStep([decide EXCEPT !.pc = "regex", !.text = text, !.calls = 1])

\* line 121-125: the marker, if the regex finds one, is the decision
DecideRegex ==
    /\ status = "running" /\ decide.pc = "regex"
    /\ LET marker == ExtractFinalDecisionRegex(decide.text)
       IN  IF marker # "none"
           THEN DecideStep([decide EXCEPT !.pc = "done",
                               !.result_type = DecidePlanType(marker, FALSE)])
           ELSE DecideStep([decide EXCEPT !.pc = "secondary"])

\* line 127-139: the secondary extraction call and the default
DecideSecondary ==
    /\ status = "running" /\ decide.pc = "secondary"
    /\ \E mentions \in BOOLEAN :
         DecideStep([decide EXCEPT
                        !.pc = "done", !.calls = 2,
                        !.secondary = IF mentions THEN "subtasks" ELSE "other",
                        !.result_type = DecidePlanType("none", mentions)])

InitDecide ==
    /\ cfg \in Configs(FALSE)
    /\ stack = <<>>
    /\ davi = NoDavi
    /\ decide = [pc |-> "reasoning", text |-> <<>>, calls |-> 0,
                 secondary |-> "none", result_type |-> "none"]
    /\ runner = NoRunner
    /\ index = <<>>
    /\ bench = NoBenchmark
    /\ tui = NoTui
    /\ ckpt = NoCheckpoint
    /\ status = "running"
    /\ exc = "none"
    /\ result = NoTask
    /\ obs = NoObs

NextDecide ==
    \/ DecideReasoning
    \/ DecideRegex
    \/ DecideSecondary

SpecDecide == InitDecide /\ [][NextDecide]_vars

\* -------------------------------------------------------- TestRunner.run
\* TestRunner.__init__ line 21: max_workers = 8
DefaultWorkers == 8

\* the pool sizes: one worker, and the default
WorkerCounts == {1, DefaultWorkers}

\* what running one test case comes to: the output matches, it does not,
\* the process ends with a non-zero exit code, subprocess.run raises
\* TimeoutExpired, or it raises another exception
Outcomes == {"match", "mismatch", "exit", "TimeoutExpired", "Exception"}

\* the test suites: one deterministic outcome per test case
Suites == UNION {[1..n -> Outcomes] : n \in 0..MaxCases}

\* _execute_single_case without the catch-all of line 172 (a faulty
\* variant)
ExecuteSingleCaseNoCatchAll(outcome) ==
    IF outcome = "match"
    THEN [raised |-> FALSE, success |-> TRUE, error_detail |-> "None"]
    ELSE IF outcome = "exit"
    THEN [raised |-> FALSE, success |-> FALSE, error_detail |-> "Runtime Error"]
    ELSE IF outcome = "mismatch"
    THEN [raised |-> FALSE, success |-> FALSE, error_detail |-> "Output mismatch"]
    ELSE IF outcome = "TimeoutExpired"
    THEN [raised |-> FALSE, success |-> FALSE, error_detail |-> "Timeout exceeded"]
    ELSE [raised |-> TRUE, success |-> FALSE, error_detail |-> "None"]

\* TestRunner._execute_single_case line 118-178: (success, error_detail);
\* raised tells whether an exception leaves the function
ExecuteSingleCase(outcome) ==
    IF outcome = "exit"
    THEN [raised |-> FALSE, success |-> FALSE, error_detail |-> "Runtime Error"]
    ELSE IF outcome = "match"
    THEN [raised |-> FALSE, success |-> TRUE, error_detail |-> "None"]
    ELSE IF outcome = "mismatch"
    THEN [raised |-> FALSE, success |-> FALSE, error_detail |-> "Output mismatch"]
    ELSE IF outcome = "TimeoutExpired"
    THEN [raised |-> FALSE, success |-> FALSE, error_detail |-> "Timeout exceeded"]
    ELSE [raised |-> FALSE, success |-> FALSE,
          error_detail |-> "Infrastructure Execution Error"]

NoResult == [passed_tests |-> -1, total_tests |-> -1, success_rate |-> -1,
             errors |-> <<>>]

\* the locals of run(test_suite, full_code) at its first line; `first` keeps
\* the TestsResult of the run before on the same suite and code
NewRunner(cases, max_workers, run, first) ==
    [pc |-> "begin", cases |-> cases, max_workers |-> max_workers,
     run |-> run, first |-> first,
     total_tests |-> 0, passed_tests |-> 0, completed_tests |-> 0,
     errors |-> <<>>, collected |-> {}, result |-> NoResult]

RunnerStep(r) ==
    /\ runner' = r
    /\ UNCHANGED <<cfg, stack, status, exc, result, davi, decide, index, ckpt, bench, tui, obs>>

\* line 28-43: the suite without test cases is answered at once
RunnerBegin ==
    /\ runner.pc = "begin"
    /\ LET total == Len(runner.cases)
       IN  IF total = 0
           THEN RunnerStep([runner EXCEPT
                    !.pc = "returned",
                    !.result = [passed_tests |-> 0, total_tests |-> 0,
                                success_rate |-> 0, errors |-> <<>>]])
           ELSE RunnerStep([runner EXCEPT !.pc = "pool", !.total_tests = total])

\* line 59-63: every case is submitted; the pool has
\* min(max_workers, total_tests) threads and takes the cases in the order
\* of submission, so the cases that can be the next to complete are the
\* first that many not yet completed
InFlight(r) ==
    LET pending == (1..r.total_tests) \ r.collected
    IN  {i \in pending :
            Cardinality({j \in pending : j < i}) < Min(r.max_workers, r.total_tests)}

\* the loop body with the counter updated by the worker threads without
\* synchronisation, so that an increment can be lost (a faulty variant)
RunnerAsCompletedUnsynchronised ==
    /\ runner.pc = "pool"
    /\ \E i \in InFlight(runner), lost \in BOOLEAN :
         LET r == ExecuteSingleCase(runner.cases[i])
         IN  RunnerStep([runner EXCEPT
                 !.collected = @ \cup {i},
                 !.completed_tests = @ + 1,
                 !.passed_tests = IF r.success /\ ~lost THEN @ + 1 ELSE @,
                 !.errors = IF ~r.success /\ r.error_detail # "None"
                            THEN Append(@, [case |-> i,
                                            error_message |-> r.error_detail])
                            ELSE @])

\* line 65-75: the main thread takes the futures as they complete, in
\* whatever order that is, and counts
RunnerAsCompleted ==
    /\ runner.pc = "pool"
    /\ \E i \in InFlight(runner) :
         LET r == ExecuteSingleCase(runner.cases[i])
         IN  IF r.raised
             THEN RunnerStep([runner EXCEPT !.pc = "raised"])
             ELSE RunnerStep([runner EXCEPT
                     !.collected = @ \cup {i},
                     !.completed_tests = @ + 1,
                     !.passed_tests = IF r.success THEN @ + 1 ELSE @,
                     !.errors = IF ~r.success /\ r.error_detail # "None"
                                THEN Append(@, [case |-> i,
                                                error_message |-> r.error_detail])
                                ELSE @])

\* line 90-101: the TestsResult
RunnerReturn ==
    /\ runner.pc = "pool"
    /\ runner.collected = 1..runner.total_tests
    /\ RunnerStep([runner EXCEPT
           !.pc = "returned",
           !.result = [passed_tests |-> runner.passed_tests,
                       total_tests |-> runner.total_tests,
                       success_rate |-> SuccessRate(runner.passed_tests,
                                                    runner.total_tests),
                       errors |-> runner.errors]])

\* the executor is run once more on the same suite and code
RunnerSecondRun ==
    /\ runner.pc = "returned"
    /\ runner.run = 1
    /\ RunnerStep(NewRunner(runner.cases, runner.max_workers, 2,
                            [runner.result EXCEPT !.errors = <<>>]))

\* the configuration of the runs of the executor
RunnerConfig ==
    [max_retry |-> MaxRetry, max_iter |-> MaxIter, judge_level |-> 0,
     solution_defaults |-> TRUE, count_calls |-> FALSE]

InitRunner ==
    /\ cfg = RunnerConfig
    /\ stack = <<>>
    /\ davi = NoDavi
    /\ decide = NoDecide
    /\ index = <<>>
    /\ bench = NoBenchmark
    /\ tui = NoTui
    /\ ckpt = NoCheckpoint
    /\ \E cases \in Suites, w \in WorkerCounts :
          runner = NewRunner(cases, w, 1, NoResult)
    /\ status = "running"
    /\ exc = "none"
    /\ result = NoTask
    /\ obs = NoObs

NextRunner ==
    \/ RunnerBegin
    \/ RunnerAsCompleted
    \/ RunnerReturn
    \/ RunnerSecondRun

SpecRunner == InitRunner /\ [][NextRunner]_vars

\* ======================================================================
\* modules/checkpoint.py: save_checkpoint and _atomic_write
\* ======================================================================
\* What is at a path: nothing, a file being written, or a complete file
\* holding the data of the n-th save (0: the file found at the start).
Missing == [kind |-> "missing", version |-> 0]
Partial(v) == [kind |-> "partial", version |-> v]
Complete(v) == [kind |-> "complete", version |-> v]

Exists(file) == file.kind # "missing"

\* _atomic_write line 49: max_retries = 3
MaxRenameRetries == 3

\* what a reader of the destination has seen since the call began (nothing
\* read yet)
NotRead == [kind |-> "unread", version |-> 0]

\* save_checkpoint line 100-108 calling _atomic_write line 48-49: dest is
\* file_path, tmp is file_path.with_suffix(".tmp"), bck the numbered
\* backups made so far
NewCheckpoint(dest, bck, version, seen) ==
    [pc |-> "open_tmp", dest |-> dest, tmp |-> Missing, bck |-> bck,
     attempt |-> 0, version |-> version, prev |-> dest, seen |-> seen,
     logged |-> FALSE]

CheckpointStep(c) ==
    /\ ckpt' = c
    /\ UNCHANGED <<cfg, stack, status, exc, result, davi, decide, runner, index, bench, tui, obs>>

\* line 52: open(temp_path, "w") creates or truncates the temporary file
AtomicWriteOpenTmp ==
    /\ ckpt.pc = "open_tmp"
    /\ CheckpointStep([ckpt EXCEPT !.pc = "dump_tmp",
                                   !.tmp = Partial(ckpt.version)])

\* line 52-53: json.dump and the end of the with block
AtomicWriteDumpTmp ==
    /\ ckpt.pc = "dump_tmp"
    /\ CheckpointStep([ckpt EXCEPT !.pc = "remove",
                                   !.tmp = Complete(ckpt.version)])

\* line 59-60: the destination, when there is one, is removed before the
\* rename; os.remove succeeds or raises PermissionError / OSError
AtomicWriteRemove ==
    /\ ckpt.pc = "remove"
    /\ IF Exists(ckpt.dest)
       THEN \E removed \in BOOLEAN :
              IF removed
              THEN CheckpointStep([ckpt EXCEPT !.pc = "rename", !.dest = Missing])
              ELSE CheckpointStep([ckpt EXCEPT !.pc = "except"])
       ELSE CheckpointStep([ckpt EXCEPT !.pc = "rename"])

\* line 61-62: os.rename(temp_path, file_path), then return; or OSError
AtomicWriteRename ==
    /\ ckpt.pc = "rename"
    /\ \E renamed \in BOOLEAN :
         IF renamed
         THEN CheckpointStep([ckpt EXCEPT !.pc = "returned",
                                          !.dest = ckpt.tmp,
                                          !.tmp = Missing])
         ELSE CheckpointStep([ckpt EXCEPT !.pc = "except"])

\* line 63-65: the next attempt after a delay, the fallback after the last
AtomicWriteExcept ==
    /\ ckpt.pc = "except"
    /\ IF ckpt.attempt < MaxRenameRetries - 1
       THEN CheckpointStep([ckpt EXCEPT !.pc = "remove", !.attempt = @ + 1])
       ELSE CheckpointStep([ckpt EXCEPT !.pc = "backup"])

\* line 70-81: the existing destination is renamed to the first free
\* .json.bckN; a failure of that rename is passed over
AtomicWriteBackup ==
    /\ ckpt.pc = "backup"
    /\ IF Exists(ckpt.dest)
       THEN \E renamed \in BOOLEAN :
              IF renamed
              THEN CheckpointStep([ckpt EXCEPT !.pc = "direct_open",
                                               !.bck = Append(@, ckpt.dest),
                                               !.dest = Missing])
              ELSE CheckpointStep([ckpt EXCEPT !.pc = "direct_open"])
       ELSE CheckpointStep([ckpt EXCEPT !.pc = "direct_open"])

\* line 84: open(file_path, "w") creates or truncates the destination; when
\* it fails, line 94-95 re-raises the first error and save_checkpoint
\* (line 108-109) logs it
AtomicWriteDirectOpen ==
    /\ ckpt.pc = "direct_open"
    /\ \E opened \in BOOLEAN :
         IF opened
         THEN CheckpointStep([ckpt EXCEPT !.pc = "direct_dump",
                                          !.dest = Partial(ckpt.version)])
         ELSE CheckpointStep([ckpt EXCEPT !.pc = "returned", !.logged = TRUE])

\* line 84-85: json.dump into the destination and the end of the with block
AtomicWriteDirectDump ==
    /\ ckpt.pc = "direct_dump"
    /\ CheckpointStep([ckpt EXCEPT !.pc = "cleanup",
                                   !.dest = Complete(ckpt.version)])

\* line 88-93: the temporary file is removed, a failure is passed over
AtomicWriteCleanup ==
    /\ ckpt.pc = "cleanup"
    /\ IF Exists(ckpt.tmp)
       THEN \E removed \in BOOLEAN :
              CheckpointStep([ckpt EXCEPT
                  !.pc = "returned",
                  !.tmp = IF removed THEN Missing ELSE @])
       ELSE CheckpointStep([ckpt EXCEPT !.pc = "returned"])

\* the benchmark saves again after the next result
SaveCheckpointAgain ==
    /\ ckpt.pc = "returned"
    /\ ckpt.version < MaxSaves
    /\ CheckpointStep([NewCheckpoint(ckpt.dest, ckpt.bck, ckpt.version + 1,
                                     NotRead)
                          EXCEPT !.tmp = ckpt.tmp])

\* the process is killed between two steps of the call
CheckpointCrash ==
    /\ ckpt.pc \notin {"idle", "returned", "crashed"}
    /\ CheckpointStep([ckpt EXCEPT !.pc = "crashed"])

\* load_checkpoint line 31-39 in another process, or after a crash: looks
\* at the destination path
LoadCheckpoint ==
    /\ ckpt.pc # "idle"
    /\ ckpt.seen # ckpt.dest
    /\ CheckpointStep([ckpt EXCEPT !.seen = ckpt.dest])

InitCheckpoint ==
    /\ cfg = RunnerConfig
    /\ stack = <<>>
    /\ davi = NoDavi
    /\ decide = NoDecide
    /\ runner = NoRunner
    /\ index = <<>>
    /\ bench = NoBenchmark
    /\ tui = NoTui
    /\ \E dest \in {Missing, Complete(0)} :
          ckpt = NewCheckpoint(dest, <<>>, 1, NotRead)
    /\ status = "running"
    /\ exc = "none"
    /\ result = NoTask
    /\ obs = NoObs

NextCheckpoint ==
    \/ AtomicWriteOpenTmp
    \/ AtomicWriteDumpTmp
    \/ AtomicWriteRemove
    \/ AtomicWriteRename
    \/ AtomicWriteExcept
    \/ AtomicWriteBackup
    \/ AtomicWriteDirectOpen
    \/ AtomicWriteDirectDump
    \/ AtomicWriteCleanup
    \/ SaveCheckpointAgain
    \/ CheckpointCrash
    \/ LoadCheckpoint

SpecCheckpoint == InitCheckpoint /\ [][NextCheckpoint]_vars

\* ======================================================================
\* TestRunner.run line 90-101 and the stop condition of solve_solution, as
\* functions of the two counters (suites of every size up to MaxTotal)
\* ======================================================================
\* The totals gone through.  RoundHalfEven is what round(x, 2) gives
\* whenever the quotient is not a decimal tie, and for the ties that are
\* exact in binary (eighths); a tie can occur only when total is a multiple
\* of 8, and it is inexact in binary only when total is a multiple of 40,
\* where the binary quotient decides the direction: those totals are left
\* out.
ScoredTotals == {t \in 0..MaxTotal : t % 40 # 0 \/ t = 0}

NewScore(passed, total) ==
    [pc |-> "score", passed_tests |-> passed, total_tests |-> total,
     result |-> NoResult]

\* TestRunner.run line 90-101: the TestsResult of the two counters
ScoreTestsResult ==
    /\ runner.pc = "score"
    /\ RunnerStep([runner EXCEPT
           !.pc = "scored",
           !.result = [passed_tests |-> runner.passed_tests,
                       total_tests |-> runner.total_tests,
                       success_rate |-> SuccessRate(runner.passed_tests,
                                                    runner.total_tests),
                       errors |-> <<>>]])

\* solve_solution line 161-166 (solution_search line 193-197 and
\* solve_subtasks test the same value): return on 1.0, critique otherwise
StopOnPerfect ==
    /\ runner.pc = "scored"
    /\ RunnerStep([runner EXCEPT
           !.pc = IF runner.result.success_rate = RateOne
                  THEN "stopped" ELSE "analyze_test_failures"])

InitScore ==
    /\ cfg = RunnerConfig
    /\ stack = <<>>
    /\ davi = NoDavi
    /\ decide = NoDecide
    /\ index = <<>>
    /\ bench = NoBenchmark
    /\ tui = NoTui
    /\ ckpt = NoCheckpoint
    /\ \E total \in ScoredTotals : \E passed \in 0..total :
          runner = NewScore(passed, total)
    /\ status = "running"
    /\ exc = "none"
    /\ result = NoTask
    /\ obs = NoObs

NextScore ==
    \/ ScoreTestsResult
    \/ StopOnPerfect

SpecScore == InitScore /\ [][NextScore]_vars

\* ======================================================================
\* modules/benchmark.py: run_single_benchmark, over interrupted and resumed
\* runs on the same dataset
\* ======================================================================
\* load_dataloader: the sample is drawn with a fixed seed, so every run
\* iterates over the same questions in the same order
Dataset == [i \in 1..MaxQuestions |-> i]
DatasetIds == {Dataset[i] : i \in 1..MaxQuestions}

\* the result file: nothing, a file cut off in the middle (the states
\* _atomic_write goes through, see SpecCheckpoint), or a complete file
MissingFile == [kind |-> "missing", results |-> <<>>]
PartialFile == [kind |-> "partial", results |-> <<>>]
CompleteFile(results) == [kind |-> "complete", results |-> results]

\* load_checkpoint line 31-39: the parsed file, None when the file is
\* missing or cannot be parsed; benchmark.py line 100-103 takes its results
LoadResults(file) ==
    IF file.kind = "complete" THEN file.results ELSE <<>>

\* line 186-216: the result of a question that was solved and tested
SolvedResult(q, passed, total) ==
    [question_id |-> q, passed_tests |-> passed, total_tests |-> total,
     success_rate |-> SuccessRate(passed, total), error |-> "none"]

\* line 217-227: the result recorded for an exception
ErrorResult(q) ==
    [question_id |-> q, passed_tests |-> 0, total_tests |-> 0,
     success_rate |-> 0, error |-> "str(e)"]

NewBenchmark(run, resume, file) ==
    [pc |-> "load", run |-> run, resume |-> resume, file |-> file,
     results |-> <<>>, start_index |-> 0, processed_ids |-> {},
     pos |-> 0, q_idx |-> 0, handler |-> "none", raised |-> FALSE,
     returned |-> <<>>]

BenchmarkStep(b) ==
    /\ bench' = b
    /\ UNCHANGED <<cfg, stack, status, exc, result, davi, decide, runner, index, ckpt, tui, obs>>

\* the statements that run inside the try block of line 152-273
InTryBlock == {"try", "loop", "solve", "save", "finish"}

AtBenchmark(pc) == bench.pc = pc

\* line 96-116: the earlier results are loaded when resume is set
BenchmarkLoad ==
    /\ AtBenchmark("load")
    /\ LET results == IF bench.resume THEN LoadResults(bench.file) ELSE <<>>
       IN  BenchmarkStep([bench EXCEPT !.pc = "create_handler",
                                       !.results = results,
                                       !.start_index = Len(results)])

\* line 121-128: OllamaHandler(...) loads the model, or raises
BenchmarkCreateHandler ==
    /\ AtBenchmark("create_handler")
    /\ \E created \in BOOLEAN :
         IF created
         THEN BenchmarkStep([bench EXCEPT !.pc = "setup", !.handler = "open"])
         ELSE BenchmarkStep([bench EXCEPT !.pc = "raised"])

\* line 130-150: tui.model_loaded, the agent, the test runner, the ids of
\* the results loaded
BenchmarkSetup ==
    /\ AtBenchmark("setup")
    /\ BenchmarkStep([bench EXCEPT
           !.pc = "try",
           !.processed_ids = {bench.results[i].question_id :
                                 i \in 1..Len(bench.results)}])

\* the finally clause of line 270-273
HandlerClosed(b) == [b EXCEPT !.handler = "closed"]

\* line 152-171: nothing pending: the loaded results are returned
BenchmarkTry ==
    /\ AtBenchmark("try")
    /\ IF MaxQuestions - bench.start_index <= 0
       THEN BenchmarkStep(HandlerClosed([bench EXCEPT
                !.pc = "returned", !.returned = bench.results]))
       ELSE BenchmarkStep([bench EXCEPT !.pc = "loop", !.pos = 1,
                                        !.q_idx = bench.start_index])

\* line 174-183 taking every question, processed or not (a faulty variant)
BenchmarkNextQuestionNoSkip ==
    /\ AtBenchmark("loop")
    /\ IF bench.pos > MaxQuestions
       THEN BenchmarkStep([bench EXCEPT !.pc = "finish"])
       ELSE BenchmarkStep([bench EXCEPT !.pc = "solve", !.q_idx = @ + 1])

\* line 174-183: the next question of the dataset; one whose id is among
\* the loaded results is passed over
BenchmarkNextQuestion ==
    /\ AtBenchmark("loop")
    /\ IF bench.pos > MaxQuestions
       THEN BenchmarkStep([bench EXCEPT !.pc = "finish"])
       ELSE IF Dataset[bench.pos] \in bench.processed_ids
       THEN BenchmarkStep([bench EXCEPT !.pos = @ + 1])
       ELSE BenchmarkStep([bench EXCEPT !.pc = "solve", !.q_idx = @ + 1])

\* line 185-232 with the except clause left out: the exception leaves the
\* loop and the function (a faulty variant)
BenchmarkSolveUncaught ==
    /\ AtBenchmark("solve")
    /\ \E raised \in BOOLEAN, passed \in {0, MaxTests} :
         IF raised
         THEN BenchmarkStep(HandlerClosed([bench EXCEPT
                  !.pc = "raised", !.raised = TRUE]))
         ELSE BenchmarkStep([bench EXCEPT
                  !.pc = "save", !.raised = FALSE,
                  !.results = Append(@, SolvedResult(Dataset[bench.pos],
                                                     passed, MaxTests))])

\* line 185-232: the question is solved and tested, or an exception is
\* recorded; the result is appended
BenchmarkSolve ==
    /\ AtBenchmark("solve")
    /\ \E raised \in BOOLEAN, passed \in {0, MaxTests} :
         LET q == Dataset[bench.pos]
             r == IF raised THEN ErrorResult(q)
                  ELSE SolvedResult(q, passed, MaxTests)
         IN  BenchmarkStep([bench EXCEPT !.pc = "save",
                                         !.raised = raised,
                                         !.results = Append(@, r)])

\* what _atomic_write can leave at the path when it is over: the new
\* content, the content found (every attempt failed before the remove) or
\* nothing (removed, never renamed, the direct write failed)
AtomicWriteEnds(file, results) ==
    {CompleteFile(results), file, MissingFile}

\* what a _atomic_write cut off in the middle can leave at the path
AtomicWriteCutOff(file, results) ==
    AtomicWriteEnds(file, results) \cup {PartialFile}

\* line 241-244: save_checkpoint logs a failure and goes on
BenchmarkSaveCheckpoint ==
    /\ AtBenchmark("save")
    /\ \E file \in AtomicWriteEnds(bench.file, bench.results) :
         BenchmarkStep([bench EXCEPT !.pc = "loop", !.pos = @ + 1,
                                     !.raised = FALSE, !.file = file])

\* line 247-268: save_results, whose failure is not caught, and the return
BenchmarkFinish ==
    /\ AtBenchmark("finish")
    /\ \E file \in AtomicWriteEnds(bench.file, bench.results) :
         IF file = CompleteFile(bench.results)
         THEN BenchmarkStep(HandlerClosed([bench EXCEPT
                  !.pc = "returned", !.file = file,
                  !.returned = bench.results]))
         ELSE BenchmarkStep(HandlerClosed([bench EXCEPT
                  !.pc = "raised", !.file = file]))

BenchmarkRunning == bench.pc \notin {"idle", "returned", "raised", "killed"}

\* The run is interrupted: the process is killed, or KeyboardInterrupt is
\* raised in it.  An exception raised inside the try block runs the finally
\* clause; a write that was under way is cut off.
BenchmarkInterrupt ==
    /\ BenchmarkRunning
    /\ \E kind \in {"kill", "KeyboardInterrupt"} :
       \E file \in IF bench.pc \in {"save", "finish"}
                   THEN AtomicWriteCutOff(bench.file, bench.results)
                   ELSE {bench.file} :
         LET b == [bench EXCEPT !.file = file,
                                !.pc = IF kind = "kill" THEN "killed"
                                       ELSE "raised"]
         IN  IF kind = "KeyboardInterrupt" /\ bench.pc \in InTryBlock
             THEN BenchmarkStep(HandlerClosed(b))
             ELSE BenchmarkStep(b)

\* run_single_benchmark is called again on the same dataset and path
BenchmarkRunAgain ==
    /\ bench.pc \in {"returned", "raised", "killed"}
    /\ bench.run < MaxRuns
    /\ \E resume \in BOOLEAN :
         BenchmarkStep(NewBenchmark(bench.run + 1, resume, bench.file))

InitBenchmark ==
    /\ cfg = RunnerConfig
    /\ stack = <<>>
    /\ davi = NoDavi
    /\ decide = NoDecide
    /\ runner = NoRunner
    /\ index = <<>>
    /\ ckpt = NoCheckpoint
    /\ tui = NoTui
    /\ \E resume \in BOOLEAN : bench = NewBenchmark(1, resume, MissingFile)
    /\ status = "running"
    /\ exc = "none"
    /\ result = NoTask
    /\ obs = NoObs

NextBenchmark ==
    \/ BenchmarkLoad
    \/ BenchmarkCreateHandler
    \/ BenchmarkSetup
    \/ BenchmarkTry
    \/ BenchmarkNextQuestion
    \/ BenchmarkSolve
    \/ BenchmarkSaveCheckpoint
    \/ BenchmarkFinish
    \/ BenchmarkInterrupt
    \/ BenchmarkRunAgain

SpecBenchmark == InitBenchmark /\ [][NextBenchmark]_vars

\* ======================================================================
\* run_state.json between the benchmark process and the TUI
\* (src/tui/state/writer.py, src/tui/state/manager.py)
\* ======================================================================
\* The benchmark process rewrites .tui_state/run_state.json in place
\* (TUIStateWriter._write_state, line 60-64: open(path, "w") truncates the
\* file, json.dump fills it through the file buffer, the with block
\* closes it; every exception is swallowed).  The TUI process reads it
\* in StateManager._on_run_state_changed (line 236-242) through
\* _read_json (line 259-267), called by _load_all_state (line 280), by
\* the watchdog handler (line 29-48) and by poll_for_changes (line
\* 167-181).  The two processes share nothing but the file, so each
\* system call on it is a step of its own.
\*
\* The text of one dump reaches the file in pieces, one per flush of the
\* file buffer; piece i of the n-th dump is <<n, i>>.  The results list
\* grows from dump to dump, so later dumps are longer.
Size(version) == Min(version, MaxFlushes)
IsLast(piece) == piece[2] = Size(piece[1])
Dump(version) == [i \in 1..Size(version) |-> <<version, i>>]

\* json.load (manager.py line 264): the text is a JSON document when it
\* ends with the closing piece of a dump and no closing piece comes
\* before it (text after the closing brace is "Extra data", a text
\* without closing brace an unterminated object, the empty text
\* "Expecting value": all JSONDecodeError).  The pieces are read by
\* offset, so piece k of the text is piece k of some dump.  The empty
\* sequence stands for None.
RunStateNone == <<>>
IsJson(text) ==
    /\ Len(text) >= 1
    /\ IsLast(text[Len(text)])
    /\ \A k \in 1..(Len(text) - 1) : ~IsLast(text[k])
JsonLoad(text) == IF IsJson(text) THEN text ELSE RunStateNone

NoRead == [kind |-> "none", state |-> RunStateNone, text |-> <<>>]

NewTui ==
    [pc |-> "run",
     exists |-> FALSE, text |-> <<>>, mtime |-> 0,
     writer |-> [pc |-> "idle", version |-> 0],
     reader |-> [pc |-> "init", text |-> <<>>],
     pending |-> FALSE, last_run_state_mtime |-> 0,
     run_state |-> RunStateNone, notified |-> <<>>,
     reads |-> 0, last |-> NoRead]

TuiStep(t) ==
    /\ tui' = t
    /\ UNCHANGED <<cfg, stack, status, exc, result, davi, decide, runner, index, ckpt, bench, obs>>

\* ---- TUIStateWriter._write_state (writer.py line 44-64) ----
\* line 61: open(path, "w") creates or truncates the file
WriteStateOpen ==
    /\ tui.pc = "run"
    /\ tui.writer.pc = "idle"
    /\ tui.writer.version < MaxWrites
    /\ TuiStep([tui EXCEPT !.exists = TRUE, !.text = <<>>,
                           !.mtime = @ + 1, !.pending = TRUE,
                           !.writer = [pc |-> "dumping",
                                       version |-> @.version + 1]])

\* line 61, 63-64: open raises (OSError); the exception is swallowed and
\* this state is never written
WriteStateOpenRaises ==
    /\ tui.pc = "run"
    /\ tui.writer.pc = "idle"
    /\ tui.writer.version < MaxWrites
    /\ TuiStep([tui EXCEPT !.writer.version = @ + 1])

\* line 62: the file buffer is full and is written to the file
WriteStateFlush ==
    /\ tui.pc = "run"
    /\ tui.writer.pc = "dumping"
    /\ Len(tui.text) + 1 < Size(tui.writer.version)
    /\ TuiStep([tui EXCEPT !.text = Append(@, <<tui.writer.version, Len(@) + 1>>),
                           !.mtime = @ + 1, !.pending = TRUE])

\* line 61-62: json.dump returns and the with block closes the file,
\* which writes the rest of the buffer
WriteStateClose ==
    /\ tui.pc = "run"
    /\ tui.writer.pc = "dumping"
    /\ Len(tui.text) + 1 = Size(tui.writer.version)
    /\ TuiStep([tui EXCEPT !.text = Append(@, <<tui.writer.version, Len(@) + 1>>),
                           !.mtime = @ + 1, !.pending = TRUE,
                           !.writer.pc = "idle"])

\* line 62-64: json.dump or a flush raises (OSError, the disk is full),
\* or the benchmark process is stopped and started again: the file keeps
\* what was flushed
WriteStateRaises ==
    /\ tui.pc = "run"
    /\ tui.writer.pc = "dumping"
    /\ TuiStep([tui EXCEPT !.writer.pc = "idle"])

\* ---- StateManager (manager.py) ----
\* _on_run_state_changed, line 239-242, without the test of line 239
OnRunStateChangedNoTest(state, kind) ==
    TuiStep([tui EXCEPT !.run_state = state,
                        !.notified = Append(@, state),
                        !.reader = [pc |-> "idle", text |-> <<>>],
                        !.reads = @ + 1,
                        !.last = [kind |-> kind, state |-> state,
                                  text |-> tui.reader.text]])

\* _on_run_state_changed, line 239-242, once _read_json has returned
\* `state`: the cache is replaced and the callbacks are called when the
\* state is truthy, and nothing is done otherwise
OnRunStateChanged(state, kind) ==
    TuiStep([tui EXCEPT !.run_state = IF state # RunStateNone THEN state ELSE @,
                        !.notified = IF state # RunStateNone
                                     THEN Append(@, state) ELSE @,
                        !.reader = [pc |-> "idle", text |-> <<>>],
                        !.reads = @ + 1,
                        !.last = [kind |-> kind, state |-> state,
                                  text |-> tui.reader.text]])

\* __init__, line 106 and _load_all_state, line 280
LoadAllState ==
    /\ tui.pc = "run"
    /\ tui.reader.pc = "init"
    /\ TuiStep([tui EXCEPT !.reader.pc = "called"])

\* StateFileHandler.on_modified / on_created, line 29-48: the observer
\* thread delivers an event for run_state.json
OnModified ==
    /\ tui.pc = "run"
    /\ tui.reader.pc = "idle"
    /\ tui.pending
    /\ tui.reads < MaxReads
    /\ TuiStep([tui EXCEPT !.pending = FALSE, !.reader.pc = "called"])

\* poll_for_changes, line 174-181
PollForChanges ==
    /\ tui.pc = "run"
    /\ tui.reader.pc = "idle"
    /\ tui.reads < MaxReads
    /\ tui.exists
    /\ tui.mtime > tui.last_run_state_mtime
    /\ TuiStep([tui EXCEPT !.last_run_state_mtime = tui.mtime,
                           !.reader.pc = "called"])

\* _read_json, line 262: path.exists(); line 267 when it does not
ReadJsonExists ==
    /\ tui.pc = "run"
    /\ tui.reader.pc = "called"
    /\ IF tui.exists
       THEN TuiStep([tui EXCEPT !.reader.pc = "open"])
       ELSE OnRunStateChanged(RunStateNone, "missing")

\* _read_json, line 263: open(path, "r")
ReadJsonOpen ==
    /\ tui.pc = "run"
    /\ tui.reader.pc = "open"
    /\ TuiStep([tui EXCEPT !.reader = [pc |-> "reading", text |-> <<>>]])

\* _read_json, line 263-267: open or read raises IOError, which is caught
ReadJsonRaises ==
    /\ tui.pc = "run"
    /\ tui.reader.pc \in {"open", "reading"}
    /\ OnRunStateChanged(RunStateNone, "IOError")

\* _read_json, line 264: json.load calls f.read(), which reads from its
\* offset until a read returns nothing
ReadJsonRead ==
    /\ tui.pc = "run"
    /\ tui.reader.pc = "reading"
    /\ LET rest == SubSeq(tui.text, Len(tui.reader.text) + 1, Len(tui.text))
       IN IF rest = <<>>
          THEN TuiStep([tui EXCEPT !.reader.pc = "eof"])
          ELSE TuiStep([tui EXCEPT !.reader.text = @ \o rest])

\* the kind of text a read ended with
KindOf(text) ==
    IF IsJson(text) THEN "parsed"
    ELSE IF text = <<>> THEN "empty"
    ELSE IF \E k \in 1..(Len(text) - 1) : IsLast(text[k]) THEN "extra"
    ELSE "partial"

\* _read_json, line 264-267 and _on_run_state_changed, line 239-242
ReadJsonLoad ==
    /\ tui.pc = "run"
    /\ tui.reader.pc = "eof"
    /\ OnRunStateChanged(JsonLoad(tui.reader.text), KindOf(tui.reader.text))

InitTui ==
    /\ cfg = RunnerConfig
    /\ stack = <<>>
    /\ davi = NoDavi
    /\ decide = NoDecide
    /\ runner = NoRunner
    /\ index = <<>>
    /\ ckpt = NoCheckpoint
    /\ bench = NoBenchmark
    /\ tui = NewTui
    /\ status = "running"
    /\ exc = "none"
    /\ result = NoTask
    /\ obs = NoObs

NextTui ==
    \/ WriteStateOpen
    \/ WriteStateOpenRaises
    \/ WriteStateFlush
    \/ WriteStateClose
    \/ WriteStateRaises
    \/ LoadAllState
    \/ OnModified
    \/ PollForChanges
    \/ ReadJsonExists
    \/ ReadJsonOpen
    \/ ReadJsonRaises
    \/ ReadJsonRead
    \/ ReadJsonLoad

SpecTui == InitTui /\ [][NextTui]_vars

\* ======================================================================
\* Properties
\* ======================================================================
Frames == 1..Depth
\* the frames that are on the stack before and after a step
KeptFrames == 1..Min(Len(stack), Len(stack'))
KeptSols(i) == (DOMAIN stack[i].sols) \cap (DOMAIN stack'[i].sols)

\* C1: the success_rate stored in a Solution never decreases, in Solution
\* Search and in the Subtask Composer, whatever the test results are.
C1_Step ==
    \A i \in KeptFrames : \A s \in KeptSols(i) :
        stack'[i].sols[s].success_rate >= stack[i].sols[s].success_rate

C1_StoredRateNeverRegresses == [][C1_Step]_vars

\* a test result below the stored rate came in, and the stored rate stayed
C1_Witness ==
    /\ status = "running" /\ Depth > 0
    /\ obs.op = "run_tests"
    /\ obs.stored >= 0
    /\ obs.rate < obs.stored
    /\ CurSol.success_rate = obs.stored

\* C2: best_code and success_rate change only by a test execution whose
\* rate is >= the stored rate, and then both take the new attempt (also on
\* a tie); once a Solution was tested, best_code is a code for which the
\* executor measured exactly the stored success_rate.
C2_Pair(a, b, o) ==
    /\ (b.best_code # a.best_code \/ b.success_rate # a.success_rate)
          => /\ b.n_tested = a.n_tested + 1
             /\ o.rate >= a.success_rate
    /\ (b.n_tested = a.n_tested + 1 /\ o.rate >= a.success_rate)
          => /\ b.success_rate = o.rate
             /\ b.best_code = o.code
    /\ b.n_tested >= 1 => b.best_code_measured = b.success_rate

C2_DaviPair(a, b, o) ==
    /\ (b.best_code # a.best_code \/ b.best_score # a.best_score)
          => /\ b.n_tested = a.n_tested + 1
             /\ o.rate >= a.best_score
    /\ (b.n_tested = a.n_tested + 1 /\ o.rate >= a.best_score)
          => /\ b.best_score = o.rate
             /\ b.best_code = o.code
    /\ b.n_tested >= 1 => b.best_code_measured = b.best_score

C2_Step ==
    /\ \A i \in KeptFrames : \A s \in KeptSols(i) :
          C2_Pair(stack[i].sols[s], stack'[i].sols[s], obs')
    /\ (davi.pc # "idle" /\ davi'.pc # "idle") => C2_DaviPair(davi, davi', obs')

PerSolveCalls(b, j) ==
    (IF j = 2 THEN 2 ELSE 0) + b + (IF j >= 1 THEN 1 + b ELSE 0) + (b + 1) + 2

\* Solution Search over k candidates: b rounds of k solve_solution calls
SearchCallsBound(k, b, j) == k * b * PerSolveCalls(b, j)

\* the composer's loop: b + 1 test runs, b + 1 critiques, b regenerations
ComposerCallsBound(b) == (b + 1) * (b + 1) + 2 * (b + 1) + b * b

C4_PlanExclusive ==
    \A i \in Frames :
        LET plan == stack[i].plan
        IN  plan # NoPlan =>
              /\ plan.has_subtasks # plan.has_solutions
              /\ plan.result_type = "subtasks" <=> plan.has_subtasks
              /\ plan.result_type = "solutions" <=> plan.has_solutions

\* the Plan Decider returned an accepted breakdown
C4_Witness ==
    /\ status = "running" /\ Depth > 0
    /\ obs.op = "plan"
    /\ Top.plan.result_type = "subtasks"
    /\ Top.plan.has_subtasks /\ ~Top.plan.has_solutions
    /\ Top.plan.subtasks >= MinSubtasks

\* ---------------------------------------------------------------- C5
\* C5: a plan asked for with is_final = true is never a subtasks plan,
\* whatever the inference replies are.
C5_FinalDepthNeverSubtasks ==
    (status = "running" /\ Depth > 0 /\ obs.op = "plan" /\ obs.is_final)
        => /\ Top.plan.result_type = "solutions"
           /\ ~Top.plan.has_subtasks

\* is_final was true, the replies favoured a breakdown of at least two
\* subtasks, and a solutions plan came back
C5_Witness ==
    /\ status = "running" /\ Depth > 0
    /\ obs.op = "plan" /\ obs.is_final
    /\ obs.decision = "subtasks" /\ obs.nsub >= MinSubtasks
    /\ Top.plan.result_type = "solutions"

\* ---------------------------------------------------------------- C6
\* C6: every subtask recursion lowers the depth by one, and the Plan
\* Decider is given is_final = true exactly when the remaining depth (the
\* iteration argument) is 0, false at every level before.
C6_FinalExactlyAtDepthZero ==
    /\ (status = "running" /\ obs.op = "solve_subtasks")
          => obs.iteration = obs.caller_iteration - 1
    /\ obs.op = "plan" => (obs.is_final <=> obs.iteration = 0)

\* ---------------------------------------------------------------- C7
\* C7: every write to Task.best_solution_rating stores a value >= the one
\* it replaces, for any retry budget.
C7_RatingNeverDecreases ==
    (status = "running" /\ Depth > 0 /\ obs.op \in {"search_end", "composer_end"})
        => Top.task.best_solution_rating >= obs.old_rating

\* ---------------------------------------------------------------- C8
\* the highest rate the executor measured for any attempt of any candidate
MaxMeasured(f) ==
    CHOOSE m \in {f.sols[c].max_measured : c \in DOMAIN f.sols} :
        \A c \in DOMAIN f.sols : f.sols[c].max_measured <= m

\* what solution_search leaves in the task, given some attempt was tested
C8_AtEnd(f) ==
    (\E c \in DOMAIN f.sols : f.sols[c].n_tested >= 1)
        => /\ f.task.best_solution_rating = MaxMeasured(f)
           /\ \E c \in DOMAIN f.sols :
                 /\ f.sols[c].success_rate = MaxMeasured(f)
                 /\ f.sols[c].max_measured = MaxMeasured(f)
                 /\ f.task.code = f.sols[c].best_code
                 /\ f.task.code = f.sols[c].latest_max

\* the global best of a running search changes only after a solve_solution
\* whose candidate's rate strictly exceeds the best seen
C8_GlobalBest(a, b) ==
    (a.pc # "branch" /\ (b.best_solution # a.best_solution
                           \/ b.best_solution_rate # a.best_solution_rate))
        => /\ a.pc = "after_solve"
           /\ a.sols[a.order[a.idx]].success_rate > a.best_solution_rate
           /\ b.best_solution = a.order[a.idx]
           /\ b.best_solution_rate = a.sols[a.order[a.idx]].success_rate

C8_Step ==
    /\ \A i \in KeptFrames :
          stack[i].fn = "solve_base_task" => C8_GlobalBest(stack[i], stack'[i])
    /\ (status' = "running" /\ obs'.op = "search_end")
          => C8_AtEnd(stack'[Len(stack')])

\* C8: Solution Search returns the highest rate measured over all attempts
\* of all candidates with the best_code of a candidate holding it, also
\* when that rate is 0.0; the global best changes only on a strictly
\* higher rate.
C8_BestOfAllAttempts == [][C8_Step]_vars

\* two candidates were tried through every round, no test ever passed, and
\* the search returned 0.0 with the first candidate's latest program
C8_Witness ==
    /\ status = "running" /\ Depth > 0
    /\ obs.op = "search_end"
    /\ cfg.max_retry = MaxRetry
    /\ Len(Top.sols) >= 2
    /\ \A c \in DOMAIN Top.sols : Top.sols[c].n_tested = MaxRetry
    /\ Top.task.best_solution_rating = 0
    /\ Top.best_solution = 1
    /\ Top.task.code = Top.sols[1].best_code
    /\ Top.task.code # 0

\* ---------------------------------------------------------------- C9
\* the Solution holds the highest-rated attempt, the later one on a tie
HoldsBestAttempt(sol, rate) ==
    /\ rate = sol.max_measured
    /\ sol.best_code = sol.latest_max

\* a loop ended with no attempt at 1.0: n programs were tested for every
\* candidate of a search, m for the composer's Solution, and the loops
\* hold the best attempt
CyclesAtEnd(n, m) ==
    /\ (status = "running" /\ Depth > 0 /\ obs.op = "search_end"
          /\ \A c \in DOMAIN Top.sols : Top.sols[c].max_measured < RateOne)
          => \A c \in DOMAIN Top.sols :
                /\ Top.sols[c].n_tested = n
                /\ n >= 1 => HoldsBestAttempt(Top.sols[c], Top.sols[c].success_rate)
    /\ (status = "running" /\ Depth > 0 /\ obs.op = "composer_end"
          /\ CurSol.max_measured < RateOne)
          => /\ CurSol.n_tested = m
             /\ HoldsBestAttempt(CurSol, CurSol.success_rate)
             /\ Top.task.code = CurSol.best_code
    /\ (davi.pc = "returned" /\ obs.op = "davi_run" /\ ~obs.raised
          /\ davi.max_measured < RateOne)
          => /\ davi.n_tested = n
             /\ HoldsBestAttempt(davi, davi.best_score)

C10_CritiqueOnlyWithRetriesLeft ==
    obs.op = "analyze_test_failures"
        => /\ obs.rate < RateOne
           /\ obs.retries_left > 0

\* --------------------------------------------------------------- C11
\* the positions of a frame inside solve_solution, and at the head of a round
SolvingPcs == {"judge_solution", "generate", "judge_code", "regenerate",
               "run_tests", "critique"}

\* C11: once a candidate's success_rate is 1.0 no candidate is attempted
\* any more: a search that is inside solve_solution or at the head of a
\* round holds no candidate at 1.0 and no global best of 1.0.
C11_StopsAtPerfect ==
    \A i \in Frames :
        (stack[i].fn = "solve_base_task" /\ stack[i].pc \in SolvingPcs \cup {"round"})
            => /\ \A c \in DOMAIN stack[i].sols :
                     stack[i].sols[c].success_rate < RateOne
               /\ stack[i].best_solution_rate < RateOne

\* the first candidate of the first round reached 1.0: the search ended
\* with the second candidate never attempted and a round left
C11_Witness ==
    /\ status = "running" /\ Depth > 0
    /\ obs.op = "after_solve"
    /\ Top.pc = "search_end"
    /\ Top.best_solution_rate = RateOne
    /\ Top.idx < Len(Top.order)
    /\ Top.round + 1 < cfg.max_retry
    /\ \E c \in DOMAIN Top.sols : Top.sols[c].n_tested = 0

\* --------------------------------------------------------------- C12
\* the place of candidate c in an order
Pos(order, c) == CHOOSE k \in 1..Len(order) : order[k] = c

\* b is a, reordered by non-increasing stored rate, equals left as they were
StablyDescending(a, b, sols) ==
    /\ Len(b) = Len(a)
    /\ {b[k] : k \in 1..Len(b)} = {a[k] : k \in 1..Len(a)}
    /\ \A j, k \in 1..Len(b) :
          j < k => /\ sols[b[j]].success_rate >= sols[b[k]].success_rate
                   /\ sols[b[j]].success_rate = sols[b[k]].success_rate
                         => Pos(a, b[j]) < Pos(a, b[k])

C12_Step ==
    \A i \in KeptFrames :
        LET a == stack[i]
            b == stack'[i]
        IN  (a.fn = "solve_base_task" /\ a.pc \in SolvingPcs \cup {"round", "after_solve"})
              => \* a round begins with the first of the sorted candidates
                 /\ (a.pc = "round" /\ b.pc \in SolvingPcs)
                       => /\ StablyDescending(a.order, b.order, a.sols)
                          /\ b.idx = 1
                 \* and goes through them one by one in that order
                 /\ a.pc # "round" => b.order = a.order
                 /\ (a.pc = "after_solve" /\ b.pc \in SolvingPcs)
                       => b.idx = a.idx + 1
                 /\ (a.pc \in SolvingPcs) => b.idx = a.idx

\* C12: every round attempts the candidates in non-increasing order of the
\* success_rate they hold when the round starts, candidates of equal rate
\* in the order they had before.
C12_SortedStableRounds == [][C12_Step]_vars

\* the second round began with two tested candidates of equal rate, the
\* first-seen one still first
C12_Witness ==
    /\ status = "running" /\ Depth > 0
    /\ obs.op = "round"
    /\ Top.pc \in SolvingPcs
    /\ Top.round = 1
    /\ Len(Top.order) >= 2
    /\ Top.sols[1].success_rate >= 0
    /\ Top.sols[1].success_rate = Top.sols[2].success_rate
    /\ Top.order[1] = 1 /\ Top.order[2] = 2

\* --------------------------------------------------------------- C13
\* C13: every code-generation request carries the Solution's current
\* propose_solution and, message by message, its whole solution_history.
C13_RequestCarriesPlanAndHistory ==
    obs.op = "generate_solution_code"
        => /\ Len(obs.request) = Len(obs.history) + 1
           /\ \A k \in 1..Len(obs.history) :
                 obs.request[k + 1].content = obs.history[k].content
           /\ \E k \in 1..Len(obs.request) :
                 obs.request[k].plan = obs.propose_solution

\* --------------------------------------------------------------- C14
\* C14: a generation failure never leaves the solve loop: after a call of
\* generate_solution_code the orchestrator is still running (the failed
\* attempt counting as 0.0).
C14_GenerationFailureContained ==
    obs.op = "generate_solution_code"
        => /\ status = "running"
           /\ exc # "DeveloperGenerationError"

\* --------------------------------------------------------------- C15
\* C15: a structured-extraction failure of the plan extraction or of the
\* critique parsing is never raised: after researcher.plan and after
\* judge.analyze_test_failures the orchestrator is still running.
C15_ExtractionFailureNeverRaised ==
    obs.op \in {"plan", "analyze_test_failures"} => status = "running"

\* --------------------------------------------------------------- C16
\* the places of a text where "decision" is followed by one of the two
\* plan types
MarkerPlaces(text) ==
    {k \in 1..(Len(text) - 1) :
        text[k] = "decision" /\ text[k + 1] \in {"subtasks", "solutions"}}

\* C16: a reasoning text without a final-decision marker leads to exactly
\* one secondary extraction call; the decision is subtasks if that reply
\* mentions "subtasks" and solutions otherwise, and nothing is raised.
C16_NoMarkerFallsBack ==
    (decide.pc = "done" /\ MarkerPlaces(decide.text) = {})
        => /\ decide.calls = 2
           /\ decide.secondary # "none"
           /\ decide.result_type =
                 (IF decide.secondary = "subtasks" THEN "subtasks" ELSE "solutions")
           /\ status = "running"

\* a text that speaks of a decision but names no plan type, a secondary
\* reply that does not mention subtasks: solutions
C16_Witness ==
    /\ decide.pc = "done"
    /\ MarkerPlaces(decide.text) = {}
    /\ \E k \in 1..Len(decide.text) : decide.text[k] = "decision"
    /\ decide.secondary = "other"
    /\ decide.result_type = "solutions"

\* --------------------------------------------------------------- C17
\* the plan type the last marker of a text names
LastMarker(text) ==
    LET k == CHOOSE j \in MarkerPlaces(text) : \A i \in MarkerPlaces(text) : i <= j
    IN  text[k + 1]

\* C17: a reasoning text with a final-decision marker is decided by its
\* last marker, without a secondary call, whatever else the text holds.
C17_MarkerDecidesAlone ==
    (decide.pc = "done" /\ MarkerPlaces(decide.text) # {})
        => /\ decide.calls = 1
           /\ decide.result_type = LastMarker(decide.text)

\* --------------------------------------------------------------- C18
\* C18: the plan returned is a subtasks plan exactly when the decision was
\* subtasks, is_final was false and the breakdown has at least 2 subtasks;
\* in every other case it is a solutions plan.
C18_SubtasksOnlyWhenAccepted ==
    (status = "running" /\ Depth > 0 /\ obs.op = "plan")
        => /\ Top.plan.result_type \in {"subtasks", "solutions"}
           /\ Top.plan.result_type = "subtasks"
                 <=> /\ obs.decision = "subtasks"
                     /\ ~obs.is_final
                     /\ obs.nsub >= 2
           /\ Top.plan.result_type = "subtasks" => Top.plan.subtasks = obs.nsub

\* the decision was subtasks above the final depth, the breakdown held a
\* single subtask, and a solutions plan came back
C18_Witness ==
    /\ status = "running" /\ Depth > 0
    /\ obs.op = "plan"
    /\ obs.decision = "subtasks" /\ ~obs.is_final
    /\ obs.nsub = 1
    /\ Top.plan.result_type = "solutions"
    /\ Top.plan.has_solutions

\* --------------------------------------------------------------- C19
\* the positions of the composer from the join on
ComposerLoopPcs == {"c_run_tests", "c_critique", "c_generate", "c_end", "c_return"}

\* the subtasks 1..n in plan order
InPlanOrder(n) == [k \in 1..n |-> k]

\* what holds of the composer frame i of a stack st
ComposerOrder(st, i) ==
    LET f == st[i]
    IN  /\ f.pc = "subtasks"
           => /\ f.sub_idx \in 1..(f.n_sub + 1)
              /\ f.solved = InPlanOrder(f.sub_idx - 1)
        \* every subtask is solved, once and in plan order, before the join
        /\ f.pc \in {"join"} \cup ComposerLoopPcs
           => f.solved = InPlanOrder(f.n_sub)
        \* a solve call is open only while the subtasks are gone through,
        \* and it is made with the composer's own iteration (the caller's
        \* iteration - 1, solve_base_task line 76)
        /\ i < Len(st)
           => /\ f.pc = "subtasks"
              /\ st[i + 1].fn = "solve_base_task"
              /\ st[i + 1].iteration = f.iteration

C19_Step ==
    /\ \A i \in 1..Len(stack') :
          (stack'[i].fn = "solve_subtasks" /\ stack'[i].pc # "begin")
              => ComposerOrder(stack', i)
    \* after the join only the merged program is tested, critiqued and
    \* regenerated: no second join, no further solve call
    /\ \A i \in KeptFrames :
          (stack[i].fn = "solve_subtasks" /\ stack[i].pc \in ComposerLoopPcs)
              => /\ stack'[i].pc \in ComposerLoopPcs
                 /\ stack'[i].solved = stack[i].solved
                 /\ Len(stack') <= i
    /\ (status' = "running" /\ obs'.op = "solve_base_task")
          => /\ Len(stack') = Len(stack) + 1
             /\ obs'.sub = Len(stack[Len(stack)].solved) + 1

\* C19: the composer solves every subtask exactly once, in plan order and
\* with its own depth, all of them before the single join; the loop after
\* the join works on the merged program only.
C19_SubtasksOnceThenJoin == [][C19_Step]_vars

\* both subtasks were solved in order, the merged program failed a test,
\* was critiqued and regenerated
C19_Witness ==
    /\ status = "running" /\ Depth = 1
    /\ Top.fn = "solve_subtasks"
    /\ obs.op = "generate_solution_code"
    /\ Top.n_sub >= 2
    /\ Top.solved = InPlanOrder(Top.n_sub)
    /\ Top.retries >= 1

\* --------------------------------------------------------------- C20
\* C20: the task the composer returns carries the highest rate measured
\* over the merged program and its regenerated versions, and the program
\* that achieved it, the latest one on a tie; a search over a single
\* candidate that tested a program hands on the same two values.
C20_ComposerReturnsBestMeasured ==
    /\ (status = "running" /\ Depth > 0 /\ Top.fn = "solve_subtasks"
          /\ Top.pc = "c_return")
          => /\ CurSol.n_tested >= 1
             /\ Top.task.best_solution_rating = CurSol.max_measured
             /\ Top.task.code = CurSol.latest_max
    /\ (status = "returned" /\ obs.op = "solve_subtasks_return")
          => /\ obs.n_tested >= 1
             /\ result.best_solution_rating = obs.max_measured
             /\ result.code = obs.latest_max
    /\ (status = "running" /\ Depth > 0 /\ obs.op = "search_end"
          /\ Len(Top.sols) = 1 /\ Top.sols[1].n_tested >= 1)
          => /\ Top.task.best_solution_rating = Top.sols[1].max_measured
             /\ Top.task.code = Top.sols[1].latest_max

\* the composer returned a task whose program is a regenerated version that
\* passed some tests but not all, after the budget was used up
C20_Witness ==
    /\ status = "returned"
    /\ obs.op = "solve_subtasks_return"
    /\ obs.n_tested >= 2
    /\ result.best_solution_rating > 0
    /\ result.best_solution_rating < RateOne
    /\ result.code = obs.latest_max
    /\ result.code > 1

\* --------------------------------------------------------------- C21
\* the number of entries of a history that carry a role
RoleCount(h, role) == Cardinality({i \in DOMAIN h : h[i].role = role})

IsPrefix(a, b) ==
    /\ Len(a) <= Len(b)
    /\ \A i \in DOMAIN a : b[i] = a[i]

\* the candidates of the searches on the stack that reached 1.0
PerfectCandidates ==
    {<<i, s>> \in Frames \X (1..MaxCand + 1) :
        /\ stack[i].fn = "solve_base_task"
        /\ s \in DOMAIN stack[i].sols
        /\ stack[i].sols[s].success_rate = RateOne}

\* a candidate that passed all tests at its k-th tested program holds k
\* developer entries and k - 1 judge entries
EntriesPerAttempt(sol) ==
    /\ RoleCount(sol.solution_history, "developer") = sol.n_tested
    /\ RoleCount(sol.solution_history, "judge") = sol.n_tested - 1

\* no entry of a solution_history is removed or rewritten
C21_Step ==
    \A i \in KeptFrames : \A s \in KeptSols(i) :
        IsPrefix(stack[i].sols[s].solution_history,
                 stack'[i].sols[s].solution_history)

SentWithFeedback(request, sent, i) ==
    /\ Len(sent[i]) = Len(request) + 2 * (i - 1)
    /\ IsPrefix(request, sent[i])
    /\ \A k \in 1..(i - 1) :
          /\ sent[i][Len(request) + 2 * k - 1].role = "assistant"
          /\ sent[i][Len(request) + 2 * k - 1].content = -k
          /\ sent[i][Len(request) + 2 * k].role = "user"
          /\ sent[i][Len(request) + 2 * k].content = -k

\* C22: one code-generation step makes at most generation_retry_attempts
\* (= max_retry) inference calls, each after the first with the rejected
\* replies and their issues appended; on success exactly one developer
\* entry, the accepted code, is appended to solution_history; when the
\* budget is used up DeveloperGenerationError is raised and the
\* solution_history is left as it was.
C22_GenerationStepBounded ==
    obs.op = "generate_solution_code"
        => LET l == obs.loop
           IN  /\ l.calls <= cfg.max_retry
               /\ Len(l.sent) = l.calls
               /\ \A i \in 1..l.calls : SentWithFeedback(obs.request, l.sent, i)
               /\ l.success
                    => /\ status = "running"
                       /\ l.calls >= 1
                       /\ CurSol.solution_history = l.history
                       /\ Len(l.history) = Len(obs.history) + 1
                       /\ IsPrefix(obs.history, l.history)
                       /\ l.history[Len(l.history)].role = "developer"
                       /\ l.history[Len(l.history)].content > 0
               /\ ~l.success
                    => /\ status = "raised"
                       /\ exc = "DeveloperGenerationError"
                       /\ l.calls = cfg.max_retry
                       /\ l.history = obs.history

\* a reply was rejected, the second call carried the feedback and its
\* reply was accepted
C22_Witness ==
    /\ status = "running" /\ Depth > 0
    /\ obs.op = "generate_solution_code"
    /\ obs.loop.success
    /\ obs.loop.calls = 2
    /\ Len(obs.loop.sent[2]) = Len(obs.request) + 2
    /\ Len(obs.history) >= 1
    /\ Len(CurSol.solution_history) = Len(obs.history) + 1

\* --------------------------------------------------------------- C23
\* the raw critique text of length len
RawCritique(len) == [kind |-> "critique", len |-> len]

\* C23: when the critique lacks the two fields and the secondary extraction
\* does not yield them either, the critique step returns normally with
\* context and propose_solution both set to the raw critique text; this is
\* so for the judge the orchestrator calls and for the judge of
\* src/agents/judge.
C23_RawCritiqueFallback ==
    (obs.op = "analyze_test_failures" /\ ~obs.parsed /\ ~obs.extracted)
        => /\ status = "running"
           /\ obs.other.context = RawCritique(obs.text_len)
           /\ obs.other.propose_solution = RawCritique(obs.text_len)

\* --------------------------------------------------------------- C24
Returned == runner.pc = "returned"

FailedCases == {i \in DOMAIN runner.cases : runner.cases[i] # "match"}

\* C25: the executor never raises for a wrong output, a runtime crash, a
\* timeout or an exception while a case is executed: run() returns, each
\* such case is counted as failed and has exactly one entry in errors, and
\* passed_tests + len(errors) = total_tests.
C25_FailuresAreCountedNotRaised ==
    /\ runner.pc # "raised"
    /\ Returned
         => LET r == runner.result
            IN  /\ r.passed_tests + Len(r.errors) = r.total_tests
                /\ r.passed_tests = Len(runner.cases) - Cardinality(FailedCases)
                /\ \A i \in FailedCases :
                      Cardinality({k \in DOMAIN r.errors : r.errors[k].case = i}) = 1
                /\ \A k \in DOMAIN r.errors : r.errors[k].case \in FailedCases

\* a suite with a timeout, a crash and an exception in the execution of a
\* case was run: nothing passed and errors has three entries
C25_Witness ==
    /\ Returned
    /\ \E i \in DOMAIN runner.cases : runner.cases[i] = "TimeoutExpired"
    /\ \E i \in DOMAIN runner.cases : runner.cases[i] = "Exception"
    /\ \E i \in DOMAIN runner.cases : runner.cases[i] = "exit"
    /\ runner.result.passed_tests = 0
    /\ Len(runner.result.errors) = 3

\* --------------------------------------------------------------- C26
\* C26: a second run of the executor on the same code and suite, the cases
\* having the same verdicts, returns the passed_tests and the success_rate
\* of the first run, in whatever order the worker threads complete the
\* cases in either run.
C26_ScoringIsIdempotent ==
    (Returned /\ runner.run = 2)
        => /\ runner.result.passed_tests = runner.first.passed_tests
           /\ runner.result.success_rate = runner.first.success_rate
           /\ runner.result.total_tests = runner.first.total_tests

\* the second run completed the cases in another order than the order of
\* submission, with a pool of several threads
C26_Witness ==
    /\ Returned /\ runner.run = 2
    /\ runner.max_workers > 1
    /\ runner.result.total_tests >= 3
    /\ runner.result.passed_tests >= 1
    /\ Len(runner.result.errors) >= 2
    /\ runner.result.errors[1].case > runner.result.errors[2].case

\* --------------------------------------------------------------- C27
\* what a run of solve is in: the call stack with the candidates and their
\* histories, and what the entry call gave back
RunState == <<stack, status, exc, result, davi>>

\* C27: a step of the orchestrator is determined by the state it is taken
\* in and by the collaborator responses it receives (obs records the call
\* made and its responses): no other step from the same state with the
\* same responses leads anywhere else.  Two runs on the same task with the
\* same responses therefore make the same attempts in the same order and
\* return the same best_solution_rating and code.
C27_Step ==
    \A o \in {obs'} : \A t \in {RunState'} :
        ~ ENABLED (Next /\ obs' = o /\ RunState' # t)

TaskOfFrame(i) ==
    [depth |-> i, sub |-> IF i = 1 THEN 0 ELSE stack[i - 1].sub_idx]

Indexed == {index[k] : k \in 1..Len(index)}

\* the steps after which solve_base_task goes on to save_history: the end
\* of Solution Search, the return of the Subtask Composer
BranchReturns == {"search_end", "solve_subtasks_return"}

C28_State ==
    \* no task is in the index twice
    /\ \A a, b \in 1..Len(index) : index[a] = index[b] => a = b
    \* a solve call that is still open has not added its task
    /\ \A i \in 1..Len(stack) :
          stack[i].fn = "solve_base_task" => TaskOfFrame(i) \notin Indexed
    \* the subtasks a composer has got back are in the index, once each and
    \* in the order they were solved
    /\ \A i \in 1..Len(stack) :
          stack[i].fn = "solve_subtasks"
              => SelectSeq(index, LAMBDA t : t.depth = i + 1)
                     = [k \in 1..Len(stack[i].solved) |->
                           [depth |-> i + 1, sub |-> stack[i].solved[k]]]
    \* a task is added after every task solved beneath it
    /\ \A a, b \in 1..Len(index) :
          a < b => index[a].depth >= index[b].depth
    \* the Task the entry call returned carries its template if and only if
    \* it was added
    /\ status = "returned"
          => (result.template <=> [depth |-> 1, sub |-> 0] \in Indexed)

C28_Step ==
    \* the index changes by one added task, in save_history only
    /\ index' # index
          => /\ Running("solve_base_task", "save_history")
             /\ index' = Append(index, TopTask)
             /\ obs'.op = "save_history"
    \* a solve call that returns has added its task
    /\ (Depth > 0 /\ Top.fn = "solve_base_task" /\ Len(stack') < Depth
            /\ status' # "raised")
          => /\ index' = Append(index, TopTask)
             /\ Top.pc = "save_history"
    \* save_history is reached from the end of the branch and from nowhere
    \* else
    /\ \A i \in KeptFrames :
          (stack'[i].fn = "solve_base_task" /\ stack'[i].pc = "save_history"
               /\ stack[i].pc # "save_history")
              => obs'.op \in BranchReturns

C29_InvalidReplyReturnsRawText ==
    (obs.op = "judge_solution" /\ obs.extraction.called
         /\ obs.extraction.reply # "valid")
        => /\ ~obs.extraction.raised
           /\ obs.extraction.response = "raw"
           /\ status # "raised"

\* --------------------------------------------------------------- C30
\* C30: during and after a call of _atomic_write, also when the process is
\* killed in the middle, the destination path holds either the complete
\* content it had when the call began or the complete new content, and a
\* reader never sees anything else there.
C30_DestinationOldOrNew ==
    ckpt.pc # "idle"
        => /\ ckpt.dest \in {ckpt.prev, Complete(ckpt.version)}
           /\ ckpt.seen \in {NotRead, ckpt.prev, Complete(ckpt.version)}

\* --------------------------------------------------------------- C31
\* C31: a TestsResult has success_rate 1.0 only when every test case passed
\* and there is at least one, so the stop condition fires only for code
\* that passed the whole suite, whatever the size of the suite.
C31_PerfectOnlyWhenAllPass ==
    (runner.pc \in {"scored", "stopped", "analyze_test_failures"}
         /\ runner.result.success_rate = RateOne)
        => /\ runner.result.passed_tests = runner.result.total_tests
           /\ runner.result.total_tests > 0

\* --------------------------------------------------------------- C32
\* the version of propose_solution in force when entry k of the history h
\* was appended: the plan of the latest critique before it, the plan the
\* Solution was created with when there is none
PlanInForce(h, k) ==
    LET critiques == {j \in 1..(k - 1) :
                         h[j].role = "judge" /\ h[j].plan # NoPlanText}
    IN  IF critiques = {} THEN 0
        ELSE h[CHOOSE j \in critiques : \A i \in critiques : i <= j].plan

\* the developer entries of a Solution that hold the code
EntriesOfCode(sol, code) ==
    {k \in 1..Len(sol.solution_history) :
        /\ sol.solution_history[k].role = "developer"
        /\ sol.solution_history[k].content = code}

\* the task of frame f took code and plan from sol: the plan is the one the
\* code was generated under
PlanMatchesCode(task, sol) ==
    \A k \in EntriesOfCode(sol, task.code) :
        task.best_solution.ver = PlanInForce(sol.solution_history, k)

\* C32: when Solution Search or the Subtask Composer hands its Task on,
\* task.best_solution is the plan text under which task.code was generated,
\* not a plan that a later critique revised.
C32_PlanOfReturnedCode ==
    (status = "running" /\ Depth > 0
         /\ obs.op \in {"search_end", "composer_end"})
        => PlanMatchesCode(Top.task,
                           IF obs.op = "search_end"
                           THEN Top.sols[Top.best_solution] ELSE CurSol)

\* --------------------------------------------------------------- C33
DaviOps == {"create_question_solution", "generate_code_from_master",
            "davi_run", "evaluate_and_suggest"}

C33_State ==
    /\ davi.pc # "idle" => (status \in {"running", "returned"} /\ exc = "none")
    /\ davi.pc \notin {"idle", "returned"} => status = "running"
    /\ davi.pc = "returned"
          => /\ status = "returned"
             /\ davi.n_tested = 0 => davi.best_code = 0
             /\ davi.n_tested >= 1
                   => /\ davi.best_code = davi.latest_max
                      /\ davi.best_score = davi.max_measured

C33_Step ==
    (davi.pc # "idle" /\ obs'.op \in DaviOps /\ obs'.raised)
        => /\ davi' = [davi EXCEPT !.pc = "returned"]
           /\ status' = "returned"

\* C33: solve_question_dataset never lets an exception out: when the
\* researcher, the developer, the test runner or the judge raises at any
\* step, the call returns with best_code as it was before that step, which
\* is the code of the highest rate measured so far (the latest one on a
\* tie), or the empty string when no code was tested.
C33_DaviAlwaysReturns == []C33_State /\ [][C33_Step]_vars

\* the first code was tested and failed a test, the test runner raised on
\* the second code: the call returns the first code
C33_Witness ==
    /\ davi.pc = "returned" /\ status = "returned"
    /\ obs.op = "davi_run" /\ obs.raised
    /\ davi.n_tested = 1
    /\ davi.best_code = 1
    /\ davi.best_score < RateOne
    /\ davi.code = 2

\* --------------------------------------------------------------- C34
UniqueIds(results) ==
    \A i, j \in 1..Len(results) :
        results[i].question_id = results[j].question_id => i = j

OnePerQuestion(results) ==
    /\ UniqueIds(results)
    /\ {results[i].question_id : i \in 1..Len(results)} = DatasetIds

\* C34: over interrupted and resumed runs on the same dataset no
\* question_id is twice in the results, in memory or in the result file,
\* and a run that finishes returns and has saved exactly one result for
\* every question of the dataset.
C34_OneResultPerQuestion ==
    bench.pc # "idle"
        => /\ UniqueIds(bench.results)
           /\ bench.file.kind = "complete" => UniqueIds(bench.file.results)
           /\ bench.pc = "returned"
                 => /\ OnePerQuestion(bench.returned)
                    /\ bench.file.kind = "complete"
                    /\ OnePerQuestion(bench.file.results)

\* a run resumed from a file holding one result finished with the second
C34_Witness ==
    /\ bench.pc = "returned"
    /\ bench.run >= 2 /\ bench.resume
    /\ bench.start_index = 1
    /\ Len(bench.returned) = MaxQuestions
    /\ bench.file = CompleteFile(bench.returned)

\* --------------------------------------------------------------- C35
C35_State ==
    (bench.pc # "idle" /\ bench.raised)
        => /\ bench.pc \in {"save", "killed", "raised"}
           /\ Len(bench.results) >= 1
           /\ bench.results[Len(bench.results)] = ErrorResult(Dataset[bench.pos])

C35_Step ==
    (bench.pc = "save" /\ bench.raised /\ bench'.pc \notin {"killed", "raised"})
        => /\ bench'.pc = "loop"
           /\ bench'.pos = bench.pos + 1
           /\ bench'.results = bench.results
           /\ bench'.file \in AtomicWriteEnds(bench.file, bench.results)
           /\ bench'.handler = "open"

\* C35: an exception raised while a question is solved or tested is
\* recorded as that question's result with success_rate 0.0, passed_tests
\* 0 and the error text; the checkpoint is then saved and the loop goes on
\* with the next question.
C35_QuestionErrorIsRecorded == []C35_State /\ [][C35_Step]_vars

\* the first question raised, the second passed its tests, the run
\* finished and saved both results
C35_Witness ==
    /\ bench.pc = "returned" /\ bench.run = 1
    /\ bench.returned = <<ErrorResult(Dataset[1]),
                          SolvedResult(Dataset[2], MaxTests, MaxTests)>>
    /\ bench.file = CompleteFile(bench.returned)

\* --------------------------------------------------------------- C36
\* C36: when run_single_benchmark returns or raises after it created the
\* model handler, the handler has been closed.
C36_HandlerClosedOnExit ==
    (bench.pc \in {"returned", "raised"} /\ bench.handler # "none")
        => bench.handler = "closed"

\* --------------------------------------------------------------- C37
\* C37: Solution Search does not raise on the candidate list of a
\* solutions plan, whatever its length (the empty list included) and
\* whatever the retry budget: with the Solution schema that has defaults
\* the search is entered and goes on.
C37_SearchTakesEveryCandidateList ==
    (obs.op = "solution_search" /\ cfg.solution_defaults)
        => /\ status = "running"
           /\ exc = "none"

\* --------------------------------------------------------------- C38
\* C38: while the benchmark process rewrites run_state.json in place, a
\* read of the StateManager that finds the file missing, empty or partly
\* written (or that fails with IOError) ends without a parsed state, and
\* then the cached RunState is the one cached before and no callback is
\* notified; the cache is replaced only by a state that was parsed,
\* with one notification of that state, and once set it is never None
\* again.  No step of the writer touches the cache.
C38_Step ==
    /\ (tui.run_state # RunStateNone) => (tui'.run_state # RunStateNone)
    /\ (tui'.reads = tui.reads)
          => /\ tui'.run_state = tui.run_state
             /\ tui'.notified = tui.notified
    /\ (tui'.reads # tui.reads /\ tui'.last.state = RunStateNone)
          => /\ tui'.last.kind \in {"missing", "IOError", "empty", "partial", "extra"}
             /\ tui'.run_state = tui.run_state
             /\ tui'.notified = tui.notified
    /\ (tui'.reads # tui.reads /\ tui'.last.state # RunStateNone)
          => /\ tui'.last.kind = "parsed"
             /\ tui'.run_state = tui'.last.state
             /\ tui'.notified = Append(tui.notified, tui'.last.state)
C38_FailedReadKeepsCache == [][C38_Step]_vars
\* a read that ended on a partly written file while the writer was still
\* dumping, with a RunState cached by an earlier read
C38_Witness ==
    /\ tui.pc = "run"
    /\ tui.last.kind = "partial"
    /\ tui.writer.pc = "dumping"
    /\ tui.run_state # RunStateNone
    /\ Len(tui.notified) = 1
====
